---- MODULE Spec2Model ----
(***************************************************************************)
(* Run-simulation core of the roguelike: pooled actor groups, the enemy    *)
(* spawner (waves, bosses, spawn interval), the two timed-buff stores      *)
(* (AltarManager.activeBuffs, SpaceStationManager.lingeringBuffs), the     *)
(* station's safe zone, attack launching and hit resolution, the order of  *)
(* a frame, the spawner's enemies one by one, resources and purchases, and *)
(* wave content (elite chance, boss scaling) in binary64 arithmetic.       *)
(*                                                                         *)
(* Each subsystem has its own specification (SpecPool, SpecSpawner,        *)
(* SpecBuff, SpecZone, SpecEject, SpecAttack, SpecHit, SpecOrb, SpecOrder, *)
(* SpecFleet, SpecEconomy, SpecWaves, SpecShelter, SpecCull, SpecVitals,     *)
(* SpecPickup, SpecUpgrade, SpecPoolTicking, SpecWander); a                *)
(* specification leaves the variables of the subsystems it does not        *)
(* observe at their constructed values.                                    *)
(***************************************************************************)
EXTENDS Integers, Sequences, FiniteSets, TLC

VARIABLES
  \* ---- pooled actor groups ----
  group,        \* which Phaser group this run observes
  children,     \* the group's members, in insertion order
  acquired,     \* what getFirstDead(false) returned in the last operation:
                \* 0 = null, an index otherwise, -1 = the operation made no call
  poolOp,       \* the last pool operation
  \* ---- enemy spawner ----
  spawner,      \* the EnemySpawner's fields, the length of its enemies group
                \* and the waves spawnBoss has constructed a boss for
  \* ---- timed buffs ----
  manager,      \* which buff store this run observes: "altar" or "station"
  now,          \* scene.time.now
  frameDelta,   \* the delta of the current frame
  phase,        \* "clock": the clock has advanced and GameScene.update has
                \* not run yet; "idle": between frames
  isPaused,     \* GameScene.isPaused
  playerAt,     \* where the player stands relative to the station
  activeBuffs,  \* AltarManager.activeBuffs, in insertion order
  station,      \* the SpaceStationManager's fields and how often it has
                \* called onUpgradeStart and onUpgradeComplete
  trace,        \* what the last GameScene.update did to the observed store:
                \* grants, the entries they replaced, expiry hook calls and
                \* the expired notifications shown
  \* ---- safe zone ----
  playerDist,   \* distance between the player and the station
  sanctuaryShieldCooldownEnd,
  zoneLog,      \* what the last station update did at the zone boundary:
                \* the callbacks fired, the last callback ever fired, whether
                \* the entry shield was granted and when it was last granted
  hostiles,     \* the enemies group seen from the station: active flag and
                \* distance to the station of each member
  \* ---- attack launching ----
  weapons,      \* ProjectileManager.autoFireTimer and the WeaponManager's
                \* timers and unlocked weapons
  launched,     \* what the attack managers did in the last GameScene.update:
                \* the kinds of attack fired, what the canAttack callback
                \* returned, whether an enemy was in range
  \* ---- hit resolution ----
  enemies,      \* per target: currentHp, isAlive and the number of times
                \* EnemySpawner.onEnemyDeath has run for it
  axe,          \* one AxeProjectile
  orb,          \* one OrbProjectile
  combatLog,    \* the last operation on the combat objects and, per target,
                \* the axe's damage applications in its current pass and the
                \* tick time accumulated since the orb last damaged it
  \* ---- frame order ----
  updateOrder,  \* the components that have advanced in the current frame,
                \* in the order they did
  \* ---- the spawner's enemies one by one ----
  fleet,        \* the enemies group in insertion order: each member's
                \* distance to the player and whether it is a boss
  spawnEnv,     \* how the engine's group iterates while members are
                \* destroyed, and whether isPlayerInSafeZoneCallback is set
  spawnLog,     \* what the last EnemySpawner.update did: the outcome of its
                \* spawn attempt, the enemies it constructed, what the
                \* protection predicate was and returned
  \* ---- resources and purchases ----
  economy,      \* session gold, saved gold, materials, station level and
                \* module tiers, and what the last purchase attempt did
  \* ---- wave content ----
  waves,        \* the wave a spawn is made in, the random draw, and what
                \* selectEnemyType or spawnBoss made of them
  \* ---- attacks in the air ----
  flight,       \* the lifespan so far of the auto-fire projectile in
                \* flight, -1 with none
  \* ---- kill events ----
  killLog,      \* the enemies the last EnemySpawner.update culled and the
                \* kill events the last tick or death emitted
  \* ---- the player's hit points ----
  vitals,       \* the player's hit points, alive and invincible flags, and
                \* the station's regen accumulator
  \* ---- pickups ----
  pickup,        \* one pooled XP gem or gold coin: its active flag, value and
                \* running collection tweens, the awards since it was last
                \* spawned and the total awarded
  \* ---- wander mode ----
  horde         \* the enemies group seen from GameScene: whether each
                \* member is a boss, alive, and wandering

poolVars == <<group, children, acquired, poolOp>>

buffVars ==
  <<manager, now, frameDelta, phase, isPaused, playerAt, activeBuffs, station, trace>>

zoneVars == <<playerDist, sanctuaryShieldCooldownEnd, zoneLog, hostiles>>

attackVars == <<weapons, launched>>

combatVars == <<enemies, axe, orb, combatLog>>

fleetVars == <<fleet, spawnEnv, spawnLog>>

auxVars ==
  <<updateOrder, fleet, spawnEnv, spawnLog, economy, waves, flight, killLog, vitals,
    pickup, horde>>

vars ==
  <<group, children, acquired, poolOp, spawner,
    manager, now, frameDelta, phase, isPaused, playerAt, activeBuffs, station, trace,
    playerDist, sanctuaryShieldCooldownEnd, zoneLog, hostiles,
    weapons, launched, enemies, axe, orb, combatLog,
    updateOrder, fleet, spawnEnv, spawnLog, economy, waves, flight, killLog, vitals,
    pickup, horde>>

Min(a, b) == IF a < b THEN a ELSE b
Max(a, b) == IF a > b THEN a ELSE b

(***************************************************************************)
(* Pools                                                                   *)
(***************************************************************************)
PoolKinds ==
  {"projectiles", "enemyProjectiles", "gems", "coins", "axes", "daggers", "orbs"}

PROJECTILE_POOL_SIZE == 100
ENEMY_PROJECTILE_POOL_SIZE == 50
XP_GEM_POOL_SIZE == 100
GOLD_POOL_SIZE == 50
AXE_POOL_SIZE == 5
DAGGER_POOL_SIZE == 5
ORB_POOL_SIZE == 3

\* Groups larger than MaxPool are modelled with MaxPool members.
MaxPool == 3

PoolSize(k) ==
  Min(MaxPool,
      CASE k = "projectiles"      -> PROJECTILE_POOL_SIZE
        [] k = "enemyProjectiles" -> ENEMY_PROJECTILE_POOL_SIZE
        [] k = "gems"             -> XP_GEM_POOL_SIZE
        [] k = "coins"            -> GOLD_POOL_SIZE
        [] k = "axes"             -> AXE_POOL_SIZE
        [] k = "daggers"          -> DAGGER_POOL_SIZE
        [] OTHER                  -> ORB_POOL_SIZE)

PROJECTILE_LIFESPAN == 2000
ENEMY_PROJECTILE_LIFESPAN == 3000
AXE_LIFESPAN == 1500
DAGGER_LIFESPAN == 800

\* Groups whose members expire by lifespan in their update().
Timed == {"projectiles", "enemyProjectiles", "axes", "daggers"}

maxLifespan(k) ==
  CASE k = "projectiles"      -> PROJECTILE_LIFESPAN
    [] k = "enemyProjectiles" -> ENEMY_PROJECTILE_LIFESPAN
    [] k = "axes"             -> AXE_LIFESPAN
    [] OTHER                  -> DAGGER_LIFESPAN

\* Groups whose member fire() returns early on a zero-length direction.
Directed == {"projectiles", "enemyProjectiles", "axes"}

\* Groups some caller deactivates (collision handlers, collect tweens,
\* lifespan); nothing ever deactivates an orb.
Releasable == PoolKinds \ {"orbs"}

\* Frame deltas (ms) the groups are updated with, and the payload a
\* fire/spawn writes (damage, xp, gold).
PoolDeltas == {1000}
Payloads == {10, 25}
DaggerCounts == {1, 2, 3, 8}

\* A pooled sprite as constructed: inactive, default payload.
NewMember == [active |-> FALSE, value |-> 10, lifespan |-> 0]

\* Phaser Group.getFirstDead(false): first inactive member, or null (0);
\* createIfNull = false, so the group is never extended.
getFirstDead(ch) ==
  IF \E i \in 1..Len(ch) : ~ch[i].active
    THEN CHOOSE i \in 1..Len(ch) :
           ~ch[i].active /\ \A j \in 1..(i - 1) : ch[j].active
    ELSE 0

\* Member fire()/spawn()/activate(): write the payload, reset the lifespan,
\* set active; a zero-length direction returns before any of it.
memberFire(m, v, zeroDir) ==
  IF zeroDir THEN m
  ELSE [active |-> TRUE, value |-> v, lifespan |-> 0]

fireRecycle(ch, v, zeroDir) ==
  LET i == getFirstDead(ch) IN
    IF i = 0 THEN [members |-> [ch EXCEPT ![1] = memberFire(ch[1], v, zeroDir)],
                   ret |-> 1]
    ELSE [members |-> [ch EXCEPT ![i] = memberFire(ch[i], v, zeroDir)], ret |-> i]

fireGrow(ch, v, zeroDir) ==
  LET i == getFirstDead(ch) IN
    IF i = 0 THEN [members |-> Append(ch, memberFire(NewMember, v, zeroDir)),
                   ret |-> Len(ch) + 1]
    ELSE [members |-> [ch EXCEPT ![i] = memberFire(ch[i], v, zeroDir)], ret |-> i]

\* Manager fire()/spawnGem()/spawnCoin()/fireAxe()/activateOrbs(): take the
\* first dead member and fire it; with none, do nothing.  ret is the member
\* obtained (ProjectileManager.fire returns it), 0 for null.
fire(ch, v, zeroDir) ==
  LET i == getFirstDead(ch) IN
    IF i = 0 THEN [members |-> ch, ret |-> 0]
    ELSE [members |-> [ch EXCEPT ![i] = memberFire(ch[i], v, zeroDir)], ret |-> i]

\* fireDagger(): projectileCount acquisitions in a row; ret is what the
\* first of them obtained.
RECURSIVE fireDagger(_, _, _)
fireDagger(ch, v, n) ==
  IF n = 0 THEN [members |-> ch, ret |-> 0]
  ELSE LET first == fire(ch, v, FALSE)
           rest == fireDagger(first.members, v, n - 1)
       IN  [members |-> rest.members, ret |-> first.ret]

\* Member deactivate(): only the active flag (and body/velocity) changes.
deactivate(m) == [m EXCEPT !.active = FALSE]

\* Member update(delta) of a timed group: inactive members return at once;
\* an axe that has come back (ret) deactivates; every member deactivates
\* once its lifespan has reached the maximum.
memberUpdateNoExpiry(k, m, delta, ret) ==
  IF ~m.active THEN m
  ELSE [m EXCEPT !.lifespan = @ + delta, !.active = ~ret]

memberUpdate(k, m, delta, ret) ==
  IF ~m.active THEN m
  ELSE LET l == m.lifespan + delta IN
         [m EXCEPT !.lifespan = l,
                   !.active = ~(ret \/ l >= maxLifespan(k))]

(***************************************************************************)
(* Enemy spawner                                                           *)
(***************************************************************************)
INITIAL_SPAWN_INTERVAL == 800
MIN_SPAWN_INTERVAL == 200
SPAWN_INTERVAL_DECREASE_RATE == 50
MAX_ENEMIES_ON_SCREEN == 125
EnemiesPerWave == 20
BossInterval == 3
BossIntroWave == 3

\* The spawner stops being ticked once MaxSpawned enemies have been spawned.
MaxSpawned == 265

\* Frame deltas (ms) the spawner is updated with.
SpawnDeltas == {400, 800}

\* How many enemies the despawn pass destroys in a tick: none, or all of
\* them (single removals are EnemyDestroyed).
FarCounts == {0, MAX_ENEMIES_ON_SCREEN + MaxSpawned}

\* EnemySpawner as constructed.
NewSpawner ==
  [spawnInterval |-> INITIAL_SPAWN_INTERVAL,
   timeSinceLastSpawn |-> 0,
   waveNumber |-> 1,
   totalEnemiesSpawned |-> 0,
   lastBossWave |-> 0,
   bossSpawnedThisWave |-> FALSE,
   enemies |-> 0,
   bossWaves |-> <<>>]

\* trySpawnEnemy(): nothing at the enemy cap or when getSpawnPosition()
\* returns null; otherwise one enemy joins the group and is counted.
trySpawnEnemy(s, inBounds) ==
  IF s.enemies >= MAX_ENEMIES_ON_SCREEN THEN s
  ELSE IF ~inBounds THEN s
  ELSE [s EXCEPT !.enemies = @ + 1, !.totalEnemiesSpawned = @ + 1]

\* despawnFarEnemies(): every enemy beyond the despawn distance is destroyed.
despawnFarEnemies(s, far) == [s EXCEPT !.enemies = @ - Min(far, @)]

\* spawnBoss(): nothing when getSpawnPosition() returns null; otherwise a
\* boss for the current wave joins the group (it is not counted in
\* totalEnemiesSpawned).
spawnBoss(s, inBounds) ==
  IF ~inBounds THEN s
  ELSE [s EXCEPT !.enemies = @ + 1,
                 !.bossSpawnedThisWave = TRUE,
                 !.bossWaves = Append(@, s.waveNumber)]

updateDifficultyEveryTick(s, bossInBounds) ==
  LET newWave == (s.totalEnemiesSpawned \div EnemiesPerWave) + 1 IN
    IF newWave >= s.waveNumber
      THEN LET s1 == [s EXCEPT !.waveNumber = newWave,
                               !.bossSpawnedThisWave = FALSE,
                               !.spawnInterval =
                                 Max(MIN_SPAWN_INTERVAL, @ - SPAWN_INTERVAL_DECREASE_RATE)]
           IN  IF /\ s1.waveNumber >= BossIntroWave
                  /\ s1.waveNumber % BossInterval = 0
                 THEN spawnBoss(s1, bossInBounds)
                 ELSE s1
      ELSE s

updateDifficultyNoClamp(s, bossInBounds) ==
  LET newWave == (s.totalEnemiesSpawned \div EnemiesPerWave) + 1 IN
    IF newWave > s.waveNumber
      THEN LET s1 == [s EXCEPT !.waveNumber = newWave,
                               !.bossSpawnedThisWave = FALSE,
                               !.spawnInterval = @ - SPAWN_INTERVAL_DECREASE_RATE]
           IN  IF /\ s1.waveNumber >= BossIntroWave
                  /\ s1.waveNumber % BossInterval = 0
                  /\ s1.lastBossWave # s1.waveNumber
                 THEN [spawnBoss(s1, bossInBounds) EXCEPT !.lastBossWave = s1.waveNumber]
                 ELSE s1
      ELSE s

\* updateDifficulty(): on a wave advance, shrink the spawn interval down to
\* its floor and, on a boss wave not yet served, call spawnBoss() and record
\* the wave in lastBossWave whether or not a boss was constructed.
updateDifficulty(s, bossInBounds) ==
  LET newWave == (s.totalEnemiesSpawned \div EnemiesPerWave) + 1 IN
    IF newWave > s.waveNumber
      THEN LET s1 == [s EXCEPT !.waveNumber = newWave,
                               !.bossSpawnedThisWave = FALSE,
                               !.spawnInterval =
                                 Max(MIN_SPAWN_INTERVAL, @ - SPAWN_INTERVAL_DECREASE_RATE)]
           IN  IF /\ s1.waveNumber >= BossIntroWave
                  /\ s1.waveNumber % BossInterval = 0
                  /\ s1.lastBossWave # s1.waveNumber
                 THEN [spawnBoss(s1, bossInBounds) EXCEPT !.lastBossWave = s1.waveNumber]
                 ELSE s1
      ELSE s

spawnerUpdateDifficultyFirst(s, delta, inBounds, far, bossInBounds) ==
  LET s0 == updateDifficulty(s, bossInBounds)
      s1 == [s0 EXCEPT !.timeSinceLastSpawn = @ + delta]
      s2 == IF s1.timeSinceLastSpawn >= s1.spawnInterval
              THEN [trySpawnEnemy(s1, inBounds) EXCEPT !.timeSinceLastSpawn = 0]
              ELSE s1
  IN  despawnFarEnemies(s2, far)

\* EnemySpawner.update(time, delta): spawn timer, despawn, difficulty.
spawnerUpdate(s, delta, inBounds, far, bossInBounds) ==
  LET s0 == [s EXCEPT !.timeSinceLastSpawn = @ + delta]
      s1 == IF s0.timeSinceLastSpawn >= s0.spawnInterval
              THEN [trySpawnEnemy(s0, inBounds) EXCEPT !.timeSinceLastSpawn = 0]
              ELSE s0
      s2 == despawnFarEnemies(s1, far)
  IN  updateDifficulty(s2, bossInBounds)

(***************************************************************************)
(* Timed buffs: AltarManager.activeBuffs and                               *)
(* SpaceStationManager.lingeringBuffs.  Times are in ms, multipliers in    *)
(* hundredths (1.0 = 100).                                                 *)
(***************************************************************************)
NEUTRAL == 100

\* ALTAR_BUFFS; an instant buff has no duration (0 here, undefined there).
ALTAR_BUFFS ==
  << [type |-> "heal",         value |-> 50,  duration |-> 0],
     [type |-> "damage_boost", value |-> 150, duration |-> 30000],
     [type |-> "speed_boost",  value |-> 130, duration |-> 20000],
     [type |-> "shield",       value |-> 100, duration |-> 5000],
     [type |-> "xp_boost",     value |-> 200, duration |-> 45000],
     [type |-> "magnet",       value |-> 100, duration |-> 0] >>

AltarBuffType == {ALTAR_BUFFS[i].type : i \in 1..Len(ALTAR_BUFFS)}

LingeringBuffType == {"damage", "xp", "fireRate", "speed", "regen"}

ModuleType == {"shield", "medical", "power", "sensor"}

MAX_LEVEL == 5
BASE_UPGRADE_TIME == 5000
UPGRADE_TIME_PER_LEVEL == 5000
HP_REGEN_LINGER_DURATION == 10000
COMBAT_DAMAGE_BOOST == 120
COMBAT_XP_BOOST == 130
COMBAT_BUFFS_DURATION == 12000
ULTIMATE_FIRE_RATE_BOOST == 115
ULTIMATE_SPEED_BOOST == 110
ULTIMATE_BUFFS_DURATION == 12000
MODULES_UNLOCK_LEVEL == 2
MODULES_MAX_TIER == 3
MEDICAL_LINGER_DURATION_BONUS == 5000
POWER_BUFF_DURATION_BONUS == 5000
POWER_DAMAGE_BONUS == 10

\* The scene clock is not advanced past MaxTime.
MaxTime == 60000

\* Frame deltas (ms).
BuffDeltas == {5000, 10000}

\* Where the player stands: within 100 px of the station, elsewhere inside
\* the protection radius, or outside it.
PlayerPlaces == {"near", "zone", "outside"}

\* The modules whose keys are pressed: the tiers of shield and sensor feed
\* no lingering buff.
ModuleKeys == {"medical", "power"}

\* The altars whose channelling completes in one tick, in group order: none
\* or one (the group holds up to two altars; the runs explored never
\* complete both in the same tick).
Activations ==
  UNION {[1..n -> {ALTAR_BUFFS[i] : i \in 1..Len(ALTAR_BUFFS)}] : n \in 0..1}

EmptyTrace == [granted |-> <<>>, regranted |-> {}, expired |-> <<>>, notified |-> <<>>]

Reverse(s) == [i \in 1..Len(s) |-> s[Len(s) + 1 - i]]

\* ---- JavaScript Map, in insertion order ----
MapHas(m, k) == \E i \in 1..Len(m) : m[i].type = k

MapGet(m, k) == m[CHOOSE i \in 1..Len(m) : m[i].type = k]

MapSet(m, k, e) ==
  IF MapHas(m, k)
    THEN [i \in 1..Len(m) |-> IF m[i].type = k THEN e ELSE m[i]]
    ELSE Append(m, e)

\* ---- AltarManager ----
applyBuffStack(buffs, buff, t) ==
  IF buff.type \in {"damage_boost", "speed_boost", "shield", "xp_boost"}
     /\ buff.duration # 0
    THEN IF MapHas(buffs, buff.type)
           THEN MapSet(buffs, buff.type,
                       [type |-> buff.type,
                        endTime |-> MapGet(buffs, buff.type).endTime + buff.duration,
                        value |-> MapGet(buffs, buff.type).value + buff.value - NEUTRAL])
           ELSE MapSet(buffs, buff.type,
                       [type |-> buff.type, endTime |-> t + buff.duration,
                        value |-> buff.value])
    ELSE buffs

\* applyBuff(buff): a timed buff is stored under its type with
\* endTime = scene.time.now + duration; heal and magnet store nothing.
applyBuff(buffs, buff, t) ==
  IF buff.type \in {"damage_boost", "speed_boost", "shield", "xp_boost"}
     /\ buff.duration # 0
    THEN MapSet(buffs, buff.type,
                [type |-> buff.type, endTime |-> t + buff.duration,
                 value |-> buff.value])
    ELSE buffs

\* showBuffExpiredNotification(type): one "expired" text for a type of
\* ALTAR_BUFFS.  The result is the notifications shown.
showBuffExpiredNotification(type) ==
  IF type \in AltarBuffType THEN <<type>> ELSE <<>>

RECURSIVE Notifications(_)
Notifications(types) ==
  IF types = <<>> THEN <<>>
  ELSE showBuffExpiredNotification(Head(types)) \o Notifications(Tail(types))

\* updateActiveBuffs(): every entry with now >= endTime is deleted and
\* announced.
updateActiveBuffs(buffs, t) ==
  LET gone == SelectSeq(buffs, LAMBDA e : t >= e.endTime)
      types == [i \in 1..Len(gone) |-> gone[i].type]
  IN  [buffs |-> SelectSeq(buffs, LAMBDA e : ~(t >= e.endTime)),
       expired |-> types,
       notified |-> Notifications(types)]

\* checkAltarInteraction(): the altars whose channelling completes in this
\* tick are activated in group order; activateAltar applies the altar's buff.
RECURSIVE checkAltarInteraction(_, _, _)
checkAltarInteraction(buffs, activated, t) ==
  IF activated = <<>> THEN buffs
  ELSE checkAltarInteraction(applyBuff(buffs, Head(activated), t),
                             Tail(activated), t)

\* AltarManager.update(delta).
altarUpdate(buffs, activated, t) ==
  updateActiveBuffs(checkAltarInteraction(buffs, activated, t), t)

\* getBuffMultiplier(type).
getBuffMultiplier(buffs, type) ==
  IF MapHas(buffs, type) THEN MapGet(buffs, type).value ELSE NEUTRAL

\* ---- SpaceStationManager ----
NewStation ==
  [stationLevel |-> 1,
   isUpgrading |-> FALSE,
   upgradeStartTime |-> 0,
   playerInsideRadius |-> FALSE,
   lingeringBuffs |-> <<>>,
   moduleTiers |-> [m \in ModuleType |-> 0],
   upgradeEvents |-> [started |-> 0, completed |-> 0]]

getUpgradeTime(s) ==
  BASE_UPGRADE_TIME + (s.stationLevel - 1) * UPGRADE_TIME_PER_LEVEL

canUpgradeWhileUpgrading(s, place) ==
  /\ s.stationLevel < MAX_LEVEL
  /\ place = "near"

\* canUpgrade() and isPlayerNearStation(), resources permitting.
canUpgrade(s, place) ==
  /\ s.stationLevel < MAX_LEVEL
  /\ ~s.isUpgrading
  /\ place = "near"

\* startUpgrade(): the countdown starts at the scene clock's time and
\* onUpgradeStart is called.
startUpgrade(s, t) ==
  [s EXCEPT !.isUpgrading = TRUE, !.upgradeStartTime = t,
            !.upgradeEvents.started = @ + 1]

\* completeUpgrade(): onUpgradeComplete is called with the new level.
completeUpgrade(s) ==
  [s EXCEPT !.isUpgrading = FALSE, !.stationLevel = @ + 1,
            !.upgradeEvents.completed = @ + 1]

updateUpgradeProgress(s, t) ==
  IF t - s.upgradeStartTime >= getUpgradeTime(s) THEN completeUpgrade(s) ELSE s

\* tryUpgradeModule(moduleType) up to canUpgradeModule's tier check,
\* resources permitting.
canUpgradeModule(s, place, m) ==
  /\ place = "near"
  /\ ~s.isUpgrading
  /\ s.stationLevel >= MODULES_UNLOCK_LEVEL
  /\ s.moduleTiers[m] < MODULES_MAX_TIER

upgradeModule(s, m) == [s EXCEPT !.moduleTiers[m] = @ + 1]

LingeringBuff(type, multiplier, duration) ==
  [type |-> type, multiplier |-> multiplier,
   remainingTime |-> duration, maxDuration |-> duration]

lingeringGrantsUltimateEarly(s) ==
  LET durationBonus == IF s.moduleTiers["power"] >= 1
                         THEN POWER_BUFF_DURATION_BONUS ELSE 0
      regenDuration == HP_REGEN_LINGER_DURATION
                         + (IF s.moduleTiers["medical"] >= 3
                              THEN MEDICAL_LINGER_DURATION_BONUS ELSE 0)
      combatDuration == COMBAT_BUFFS_DURATION + durationBonus
      damageBoost == COMBAT_DAMAGE_BOOST
                       + (IF s.moduleTiers["power"] >= 2
                            THEN POWER_DAMAGE_BONUS ELSE 0)
      ultimateDuration == ULTIMATE_BUFFS_DURATION + durationBonus
  IN  (IF s.stationLevel >= 3
         THEN <<LingeringBuff("regen", NEUTRAL, regenDuration + durationBonus)>>
         ELSE <<>>)
      \o (IF s.stationLevel >= 4
            THEN <<LingeringBuff("damage", damageBoost, combatDuration),
                   LingeringBuff("xp", COMBAT_XP_BOOST, combatDuration)>>
            ELSE <<>>)
      \o (IF s.stationLevel >= 4
            THEN <<LingeringBuff("fireRate", ULTIMATE_FIRE_RATE_BOOST, ultimateDuration),
                   LingeringBuff("speed", ULTIMATE_SPEED_BOOST, ultimateDuration)>>
            ELSE <<>>)

\* The buffs onPlayerLeaveZone() pushes for a level and module tiers.
lingeringGrants(s) ==
  LET durationBonus == IF s.moduleTiers["power"] >= 1
                         THEN POWER_BUFF_DURATION_BONUS ELSE 0
      regenDuration == HP_REGEN_LINGER_DURATION
                         + (IF s.moduleTiers["medical"] >= 3
                              THEN MEDICAL_LINGER_DURATION_BONUS ELSE 0)
      combatDuration == COMBAT_BUFFS_DURATION + durationBonus
      damageBoost == COMBAT_DAMAGE_BOOST
                       + (IF s.moduleTiers["power"] >= 2
                            THEN POWER_DAMAGE_BONUS ELSE 0)
      ultimateDuration == ULTIMATE_BUFFS_DURATION + durationBonus
  IN  (IF s.stationLevel >= 3
         THEN <<LingeringBuff("regen", NEUTRAL, regenDuration + durationBonus)>>
         ELSE <<>>)
      \o (IF s.stationLevel >= 4
            THEN <<LingeringBuff("damage", damageBoost, combatDuration),
                   LingeringBuff("xp", COMBAT_XP_BOOST, combatDuration)>>
            ELSE <<>>)
      \o (IF s.stationLevel >= 5
            THEN <<LingeringBuff("fireRate", ULTIMATE_FIRE_RATE_BOOST, ultimateDuration),
                   LingeringBuff("speed", ULTIMATE_SPEED_BOOST, ultimateDuration)>>
            ELSE <<>>)

onPlayerLeaveZoneKeep(s) ==
  [s EXCEPT !.lingeringBuffs = @ \o lingeringGrants(s)]

\* onPlayerLeaveZone(): the list is emptied, then refilled.
onPlayerLeaveZone(s) ==
  [s EXCEPT !.lingeringBuffs = lingeringGrants(s)]

checkPlayerPositionIgnoreUpgrade(s, place) ==
  LET wasInside == s.playerInsideRadius
      inside == place \in {"near", "zone"}
      s1 == [s EXCEPT !.playerInsideRadius = inside]
  IN  IF ~inside /\ wasInside THEN onPlayerLeaveZone(s1) ELSE s1

\* checkPlayerPosition(): protection is off during an upgrade; leaving the
\* zone runs onPlayerLeaveZone.  (Entering runs onPlayerEnterZone, which
\* heals the player and restarts the sanctuary shield cooldown: it touches
\* no buff.)
checkPlayerPosition(s, place) ==
  LET wasInside == s.playerInsideRadius
      inside == ~s.isUpgrading /\ place \in {"near", "zone"}
      s1 == [s EXCEPT !.playerInsideRadius = inside]
  IN  IF ~inside /\ wasInside THEN onPlayerLeaveZone(s1) ELSE s1

\* onBuffExpired(type): intentionally silent.  The result is the
\* notifications shown.
onBuffExpired(type) == <<>>

RECURSIVE LingeringNotifications(_)
LingeringNotifications(types) ==
  IF types = <<>> THEN <<>>
  ELSE onBuffExpired(Head(types)) \o LingeringNotifications(Tail(types))

updateLingeringBuffsStrict(s, delta) ==
  LET ticked == [i \in 1..Len(s.lingeringBuffs) |->
                   [s.lingeringBuffs[i] EXCEPT !.remainingTime = @ - delta]]
      gone == Reverse(SelectSeq(ticked, LAMBDA b : b.remainingTime < 0))
  IN  [station |-> [s EXCEPT !.lingeringBuffs =
                      SelectSeq(ticked, LAMBDA b : ~(b.remainingTime < 0))],
       expired |-> [i \in 1..Len(gone) |-> gone[i].type],
       notified |-> <<>>]

\* updateLingeringBuffs(delta): from the last entry to the first, take delta
\* off the remaining time; an entry at or below 0 is spliced out and
\* onBuffExpired is called with its type.
updateLingeringBuffs(s, delta) ==
  LET ticked == [i \in 1..Len(s.lingeringBuffs) |->
                   [s.lingeringBuffs[i] EXCEPT !.remainingTime = @ - delta]]
      gone == Reverse(SelectSeq(ticked, LAMBDA b : b.remainingTime <= 0))
  IN  [station |-> [s EXCEPT !.lingeringBuffs =
                      SelectSeq(ticked, LAMBDA b : ~(b.remainingTime <= 0))],
       expired |-> [i \in 1..Len(gone) |-> gone[i].type],
       notified |-> LingeringNotifications([i \in 1..Len(gone) |-> gone[i].type])]

\* SpaceStationManager.update(delta): upgrade progress, player position,
\* lingering timers.  (Material spawning, the in-zone benefits, the
\* lingering regen and the enemy push write nothing held here.)
stationUpdate(s, delta, place, t) ==
  LET s1 == IF s.isUpgrading THEN updateUpgradeProgress(s, t) ELSE s
      s2 == checkPlayerPosition(s1, place)
      r == updateLingeringBuffs(s2, delta)
  IN  [station |-> r.station,
       granted |-> IF s1.playerInsideRadius /\ ~s2.playerInsideRadius
                     THEN s2.lingeringBuffs ELSE <<>>,
       expired |-> r.expired,
       notified |-> r.notified]

\* getDamageMultiplier() / getXPMultiplier() / getFireRateMultiplier() /
\* getSpeedMultiplier().
getLingeringMultiplier(s, type) ==
  IF \E i \in 1..Len(s.lingeringBuffs) : s.lingeringBuffs[i].type = type
    THEN s.lingeringBuffs[CHOOSE i \in 1..Len(s.lingeringBuffs) :
                            /\ s.lingeringBuffs[i].type = type
                            /\ \A j \in 1..(i - 1) : s.lingeringBuffs[j].type # type].multiplier
    ELSE NEUTRAL

(***************************************************************************)
(* Safe zone: occupancy, boundary callbacks, entry shield, enemy ejection.  *)
(***************************************************************************)
BASE_RADIUS == 200
RADIUS_PER_LEVEL == 50
NEAR_STATION_DISTANCE == 100
SANCTUARY_SHIELD_COOLDOWN == 30000
BUFFER_WIDTH == 30
TELEPORT_MARGIN == 10

\* Distances (px) the player is seen at: next to the station, inside the
\* radius from level 2 on, outside every radius.
PlayerDistances == {50, 225, 450}

\* Distances (px) an enemy moves to: on the station, inside every radius,
\* inside the radius from level 3 on, in the level-1 buffer ring, far away.
HostileDistances == {5, 150, 260, 215, 500}

\* getCurrentRadius().
getCurrentRadius(s) == BASE_RADIUS + (s.stationLevel - 1) * RADIUS_PER_LEVEL

\* The player's place for a distance: isPlayerNearStation() and the radius
\* test of checkPlayerPosition().
placeOf(s, d) ==
  IF d < NEAR_STATION_DISTANCE THEN "near"
  ELSE IF d < getCurrentRadius(s) THEN "zone"
  ELSE "outside"

zoneCallbacksWhileInside(s, place) ==
  LET inside == ~s.isUpgrading /\ place \in {"near", "zone"}
  IN  IF inside THEN <<"enter">> ELSE <<>>

\* checkPlayerPosition(): the callbacks it fires, onPlayerEnterRadius on a
\* change to inside, onPlayerLeaveRadius on a change to outside.
zoneCallbacks(s, place) ==
  LET wasInside == s.playerInsideRadius
      inside == ~s.isUpgrading /\ place \in {"near", "zone"}
  IN  IF inside /\ ~wasInside THEN <<"enter">>
      ELSE IF ~inside /\ wasInside THEN <<"leave">>
      ELSE <<>>

onPlayerEnterZoneNoCooldown(cooldownEnd, s, t) ==
  IF s.stationLevel >= 2
    THEN [cooldownEnd |-> t + SANCTUARY_SHIELD_COOLDOWN, granted |-> TRUE]
    ELSE [cooldownEnd |-> cooldownEnd, granted |-> FALSE]

\* onPlayerEnterZone(): from level 2 on and off cooldown, the sanctuary
\* shield is granted and its cooldown restarts.
onPlayerEnterZone(cooldownEnd, s, t) ==
  IF s.stationLevel >= 2 /\ t >= cooldownEnd
    THEN [cooldownEnd |-> t + SANCTUARY_SHIELD_COOLDOWN, granted |-> TRUE]
    ELSE [cooldownEnd |-> cooldownEnd, granted |-> FALSE]

\* isPlayerInSafeZone().
isPlayerInSafeZone(s) == s.playerInsideRadius

canPlayerAttackAlways(s) == TRUE

\* canPlayerAttack().
canPlayerAttack(s) == ~s.playerInsideRadius

pushEnemiesOutsideUpgrade(hs, s) ==
  [i \in 1..Len(hs) |->
     IF hs[i].active /\ ~s.isUpgrading /\ hs[i].dist < getCurrentRadius(s)
       THEN [hs[i] EXCEPT !.dist = getCurrentRadius(s) + BUFFER_WIDTH + TELEPORT_MARGIN]
       ELSE hs[i]]

\* pushEnemiesOutOfRadius(): every active enemy closer than the radius is
\* set down beyond the buffer ring (one in the ring only gets a velocity).
pushEnemiesOutOfRadius(hs, s) ==
  [i \in 1..Len(hs) |->
     IF hs[i].active /\ hs[i].dist < getCurrentRadius(s)
       THEN [hs[i] EXCEPT !.dist = getCurrentRadius(s) + BUFFER_WIDTH + TELEPORT_MARGIN]
       ELSE hs[i]]

\* The enemies group after the enemies have moved in a frame: empty, or one
\* member; an inactive member's position is of no interest.
HostileMoves ==
  LET Member == {[active |-> TRUE, dist |-> d] : d \in HostileDistances}
                  \cup {[active |-> FALSE, dist |-> 5]}
  IN  {<<>>} \cup {<<a>> : a \in Member}

NewZoneLog == [callbacks |-> <<>>, last |-> "none", shield |-> FALSE, shieldAt |-> -1]

(***************************************************************************)
(* Attack launching: ProjectileManager.update and WeaponManager.update     *)
(***************************************************************************)
AUTO_FIRE_INTERVAL == 300
AXE_COOLDOWN == 800
DAGGER_COOLDOWN == 400

\* The attack specification runs to this scene time.
MaxAttackTime == 1200

AttackDeltas == {100, 200}

WeaponKeys == {"axe", "dagger"}

NewWeapons ==
  [autoFireTimer |-> 0, axeTimer |-> 0, daggerTimer |-> 0,
   hasAxe |-> FALSE, hasDagger |-> FALSE]

NoLaunch == [kinds |-> {}, allowed |-> TRUE, near |-> FALSE]

\* unlockWeapon(AXE) / unlockWeapon(DAGGER).
unlockWeapon(w, type) ==
  CASE type = "axe"    -> [w EXCEPT !.hasAxe = TRUE]
    [] type = "dagger" -> [w EXCEPT !.hasDagger = TRUE]

\* Projectile.update(delta) of the projectile in flight: it returns to the
\* pool once its lifespan has reached the maximum.
projectileUpdate(f, delta) ==
  IF f = -1 THEN f
  ELSE IF f + delta >= PROJECTILE_LIFESPAN THEN -1
  ELSE f + delta

\* ProjectileManager.update: the timer runs whether or not attacking is
\* allowed; it is reset when a shot is due, with or without an enemy in range.
projectileManagerUpdate(w, delta, canAttack, near) ==
  LET t == w.autoFireTimer + delta
      due == canAttack /\ t >= AUTO_FIRE_INTERVAL
  IN  [weapons |-> [w EXCEPT !.autoFireTimer = IF due THEN 0 ELSE t],
       kinds |-> IF due /\ near THEN {"projectile"} ELSE {}]

\* WeaponManager.update: returns before any timer when attacking is not
\* allowed; the axe needs an enemy in range, the dagger does not.
weaponManagerUpdate(w, delta, canAttack, near) ==
  IF ~canAttack
    THEN [weapons |-> w, kinds |-> {}]
    ELSE LET axeT == IF w.hasAxe /\ near THEN w.axeTimer + delta ELSE w.axeTimer
             axeDue == w.hasAxe /\ near /\ axeT >= AXE_COOLDOWN
             dagT == IF w.hasDagger THEN w.daggerTimer + delta ELSE w.daggerTimer
             dagDue == w.hasDagger /\ dagT >= DAGGER_COOLDOWN
         IN  [weapons |-> [w EXCEPT !.axeTimer = IF axeDue THEN 0 ELSE axeT,
                                    !.daggerTimer = IF dagDue THEN 0 ELSE dagT],
              kinds |-> (IF axeDue THEN {"axe"} ELSE {})
                          \cup (IF dagDue THEN {"dagger"} ELSE {})]

(***************************************************************************)
(* Hit resolution: Entity.takeDamage, the axe and the orb                  *)
(***************************************************************************)
PROJECTILE_DAMAGE == 10
AXE_DAMAGE == 25
DAGGER_DAMAGE == 15
ORB_DAMAGE == 8
AXE_MAX_DISTANCE == 200
AXE_SPEED == 250
AXE_RETURN_SPEED == 300
AXE_RETURN_REACH == 30
ORB_DAMAGE_COOLDOWN == 500

Targets == {1, 2}

\* maxHp of the enemy types the spawner constructs: basic and tank.
SpawnHp == {20, 60}

CombatDeltas == {100, 200}

OrbDeltas == {100, 200, 300}

\* The collision callbacks counted between two updates.
MaxHits == 3

NewEnemy(hp) == [currentHp |-> hp, isAlive |-> TRUE, deaths |-> 0]

alive(e) == e.isAlive

dieStaysAlive(e) == [e EXCEPT !.deaths = @ + 1]

\* Entity.die -> Enemy.onDeath -> onDeathCallback -> EnemySpawner.onEnemyDeath.
die(e) == [e EXCEPT !.isAlive = FALSE, !.deaths = @ + 1]

\* Entity.takeDamage; no enemy is ever made invincible.
takeDamage(e, amount) ==
  IF ~e.isAlive
    THEN e
    ELSE LET e1 == [e EXCEPT !.currentHp = Max(0, e.currentHp - amount)]
         IN  IF e1.currentHp <= 0 THEN die(e1) ELSE e1

NewAxe ==
  [active |-> FALSE, returning |-> FALSE, lifespan |-> 0, dist |-> 0, hitEnemies |-> {}]

\* AxeProjectile.fire; a zero direction returns before anything is set.
axeFire(a, zeroDir) ==
  IF zeroDir
    THEN a
    ELSE [active |-> TRUE, returning |-> FALSE, lifespan |-> 0, dist |-> 0,
          hitEnemies |-> {}]

axeDeactivate(a) == [a EXCEPT !.active = FALSE]

\* The physics step moves the axe by its velocity: away from the start at
\* AXE_SPEED, back towards it at AXE_RETURN_SPEED (and past it, if close).
axeMove(a, delta) ==
  IF ~a.active
    THEN a
    ELSE LET out == a.dist + (AXE_SPEED * delta) \div 1000
             back == a.dist - (AXE_RETURN_SPEED * delta) \div 1000
         IN  [a EXCEPT !.dist = IF a.returning
                                  THEN (IF back < 0 THEN -back ELSE back)
                                  ELSE out]

\* AxeProjectile.update.
axeUpdate(a, delta) ==
  IF ~a.active
    THEN a
    ELSE LET a1 == [a EXCEPT !.lifespan = @ + delta]
             a2 == IF ~a1.returning /\ a1.dist >= AXE_MAX_DISTANCE
                     THEN [a1 EXCEPT !.returning = TRUE, !.hitEnemies = {}]
                     ELSE a1
             a3 == IF a2.returning /\ a2.dist < AXE_RETURN_REACH
                     THEN axeDeactivate(a2) ELSE a2
         IN  IF a3.lifespan >= AXE_LIFESPAN THEN axeDeactivate(a3) ELSE a3

canHitEnemyForgets(a, t) == [ok |-> t \notin a.hitEnemies, axe |-> a]

\* AxeProjectile.canHitEnemy: answers and records the target.
canHitEnemy(a, t) ==
  [ok |-> t \notin a.hitEnemies,
   axe |-> [a EXCEPT !.hitEnemies = @ \cup {t}]]

EmptyCooldowns == [t \in {} |-> 0]

NewOrb == [active |-> FALSE, damageCooldowns |-> EmptyCooldowns]

\* OrbProjectile.activate.
orbActivate(o) == [active |-> TRUE, damageCooldowns |-> EmptyCooldowns]

orbUpdateEager(o, delta) ==
  IF ~o.active
    THEN o
    ELSE LET m == o.damageCooldowns
             keep == {t \in DOMAIN m : m[t] > 2 * delta}
         IN  [o EXCEPT !.damageCooldowns = [t \in keep |-> m[t] - delta]]

\* OrbProjectile.update: every cooldown runs down by delta and is deleted
\* once it has run out.
orbUpdate(o, delta) ==
  IF ~o.active
    THEN o
    ELSE LET m == o.damageCooldowns
             keep == {t \in DOMAIN m : m[t] > delta}
         IN  [o EXCEPT !.damageCooldowns = [t \in keep |-> m[t] - delta]]

\* OrbProjectile.canDamageEnemy: answers and starts the target's cooldown.
canDamageEnemy(o, t) ==
  LET m == o.damageCooldowns
  IN  IF t \in DOMAIN m
        THEN [ok |-> FALSE, orb |-> o]
        ELSE [ok |-> TRUE,
              orb |-> [o EXCEPT !.damageCooldowns =
                         [x \in DOMAIN m \cup {t} |->
                            IF x = t THEN ORB_DAMAGE_COOLDOWN ELSE m[x]]]]

NewCombatLog ==
  [by |-> "new", target |-> 0, applied |-> FALSE, hits |-> 0, since |-> -1,
   axeHits |-> [t \in Targets |-> 0],
   orbSince |-> [t \in Targets |-> -1]]

(***************************************************************************)
(* Frame order: GameScene.update and the physics callbacks                 *)
(***************************************************************************)
UpdateCallsPoolsFirst ==
  <<"player", "enemySpawner", "projectileManager", "xpGemManager", "weaponManager",
    "enemyProjectileManager", "goldManager", "altarManager", "spaceStationManager",
    "supplyDropManager", "miniMapSystem", "achievementTracker", "updateUI">>

\* The calls GameScene.update makes, in source order.
UpdateCalls ==
  <<"player", "enemySpawner", "projectileManager", "xpGemManager", "weaponManager",
    "enemyProjectileManager", "altarManager", "goldManager", "spaceStationManager",
    "supplyDropManager", "miniMapSystem", "achievementTracker", "updateUI">>

\* The component a call advances: the spawner is the scheduler, the managers
\* of pooled actors (projectiles, pickups, weapons) are the pools, the altar
\* manager keeps the timed buffs, the station manager is the safe zone gate;
\* a call that advances none of the named components stands for itself.
componentOf(call) ==
  CASE call = "enemySpawner" -> "Scheduler"
    [] call \in {"projectileManager", "xpGemManager", "weaponManager",
                 "enemyProjectileManager", "goldManager"} -> "Pools"
    [] call = "altarManager" -> "EffectEngine"
    [] call = "spaceStationManager" -> "SafeZoneGate"
    [] call \in {"miniMapSystem", "updateUI"} -> "UI"
    [] OTHER -> call

\* GameScene.update from its first call to its last.
gameSceneUpdate(order) ==
  order \o [i \in 1..Len(UpdateCalls) |-> componentOf(UpdateCalls[i])]

(***************************************************************************)
(* The spawner's enemies one by one                                        *)
(***************************************************************************)
ENEMY_SPAWN_DISTANCE == 400
ENEMY_DESPAWN_DISTANCE == 800

\* The spawner is ticked while the group has room for an enemy and a boss
\* below MaxFleet, and until MaxFleetSpawned enemies have been spawned.
MaxFleet == 4
MaxFleetSpawned == 45

\* Where an enemy can be after a frame's movement: within the despawn
\* distance or beyond it.
FleetDistances == {450, 900}

\* Group.getChildren() hands out the group's own array in some engine
\* builds ("live") and a copy in others ("snapshot").
GroupIterations == {"live", "snapshot"}

NewSpawnEnv(iteration) == [iteration |-> iteration, predicate |-> FALSE]

NewSpawnLog ==
  [tick |-> 0, attempt |-> "none", born |-> <<>>, registered |-> FALSE,
   protected |-> FALSE]

\* getSpawnPosition(): 400 to 500 px from the player.
NewFleetMember(boss) == [dist |-> ENEMY_SPAWN_DISTANCE + 50, boss |-> boss]

NewKillLog == [culled |-> 0, bossesCulled |-> 0, events |-> <<>>]

\* The death callback set by trySpawnEnemy runs onEnemyDeath, which calls
\* onEnemyKilledCallback; the one set by spawnBoss runs onEnemyDeath and
\* then onBossKilledCallback.
onDeathEvents(boss) ==
  IF boss THEN <<"enemy-killed", "boss-killed">> ELSE <<"enemy-killed">>

despawnEventsAsDeaths(culled, bossesCulled) ==
  [i \in 1..culled |-> "enemy-killed"] \o [i \in 1..bossesCulled |-> "boss-killed"]

\* despawnFarEnemies(): a far enemy is removed with enemy.destroy(), which
\* runs no death callback.  The result is the kill events emitted.
despawnEvents(culled, bossesCulled) == <<>>

Bosses(f) == Len(SelectSeq(f, LAMBDA m : m.boss))

startsWanderingUnlessTold(registered, inside) == ~registered \/ inside

\* this.isPlayerInSafeZoneCallback?.()
startsWandering(registered, inside) == registered /\ inside

RemoveAt(f, i) == [k \in 1..(Len(f) - 1) |-> IF k < i THEN f[k] ELSE f[k + 1]]

IsNear(m) == m.dist <= ENEMY_DESPAWN_DISTANCE

\* forEach over the group's own array: destroy() removes the member from
\* the array, the next member moves into its place and the loop steps past
\* it.
RECURSIVE despawnLive(_, _)
despawnLive(f, i) ==
  IF i > Len(f) THEN f
  ELSE IF ~IsNear(f[i]) THEN despawnLive(RemoveAt(f, i), i + 1)
  ELSE despawnLive(f, i + 1)

\* despawnFarEnemies(), member by member.
despawnFar(f, iteration) ==
  IF iteration = "live" THEN despawnLive(f, 1) ELSE SelectSeq(f, IsNear)

(***************************************************************************)
(* Resources and purchases                                                 *)
(***************************************************************************)
MaterialType == {"chest", "junk", "slob"}

\* SPACE_STATION.UPGRADE_COSTS[stationLevel]: [gold, materials] of the
\* upgrade that leaves level stationLevel.
UPGRADE_COSTS == <<<<50, 3>>, <<100, 5>>, <<200, 8>>, <<400, 12>>>>

\* SPACE_STATION.MODULES.<module>.COSTS, the same for every module.
MODULE_COSTS == <<5, 10, 15>>

\* SPACE_STATION.MODULES.<module>.MATERIAL_TYPE.
MATERIAL_TYPE(m) ==
  CASE m = "shield"  -> "junk"
    [] m = "medical" -> "chest"
    [] m = "power"   -> "slob"
    [] OTHER         -> "any"

\* SUPPLY_DROP.REWARDS.material.amount
SUPPLY_MATERIAL_AMOUNT == 2

\* What a gold pickup and a run's payout are worth, and the amounts a
\* purchase from the saved gold asks for.
GoldAmounts == {50}
SpendAmounts == {50, 100}

\* Materials picked up and gold earned over a run are capped.
MaxMaterials == 10
MaxGold == 100

NoAttempt == [op |-> "none", ok |-> FALSE, goldCost |-> 0, materialCost |-> 0,
              module |-> "none"]

\* GameScene.sessionGold, MetaProgressionManager.data.gold and the station
\* manager's fields as constructed; picked and earned count what the run
\* has brought in, tick tells one attempt from the next.
NewEconomy ==
  [sessionGold |-> 0,
   gold |-> 0,
   collectedMaterials |-> 0,
   materialsByType |-> [t \in MaterialType |-> 0],
   stationLevel |-> 1,
   isUpgrading |-> FALSE,
   moduleTiers |-> [m \in ModuleType |-> 0],
   picked |-> 0,
   earned |-> 0,
   tick |-> 0,
   last |-> NoAttempt]

\* material.collect()
collectMaterial(e, t) ==
  [e EXCEPT !.collectedMaterials = @ + 1, !.materialsByType[t] = @ + 1]

\* addMaterials(amount) without a type: one each to chest, junk, slob in
\* turn.
addMaterials(e, amount) ==
  [e EXCEPT !.collectedMaterials = @ + amount,
            !.materialsByType =
               [t \in MaterialType |->
                  @[t] + (CASE t = "chest" -> (amount + 2) \div 3
                            [] t = "junk"  -> (amount + 1) \div 3
                            [] OTHER       -> amount \div 3)]]

stationCost(e) ==
  IF e.stationLevel < MAX_LEVEL THEN UPGRADE_COSTS[e.stationLevel] ELSE <<0, 0>>

\* SpaceStationManager.canUpgrade(), resources included.
stationCanUpgrade(e) ==
  /\ e.stationLevel < MAX_LEVEL
  /\ ~e.isUpgrading
  /\ e.sessionGold >= stationCost(e)[1]
  /\ e.collectedMaterials >= stationCost(e)[2]

\* The spendGold accessor GameScene hands to the station manager.
spendSessionGold(e, amount) ==
  IF e.sessionGold >= amount THEN [e EXCEPT !.sessionGold = @ - amount] ELSE e

\* SpaceStationManager.startUpgrade(): the materials come off the total
\* only.
stationStartUpgrade(e) ==
  [spendSessionGold(e, stationCost(e)[1])
     EXCEPT !.collectedMaterials = @ - stationCost(e)[2],
            !.isUpgrading = TRUE]

\* The keydown-E handler.
keydownE(e, near) ==
  IF stationCanUpgrade(e) /\ near
    THEN [stationStartUpgrade(e) EXCEPT
            !.last = [op |-> "station", ok |-> TRUE,
                      goldCost |-> stationCost(e)[1],
                      materialCost |-> stationCost(e)[2], module |-> "none"]]
    ELSE [e EXCEPT
            !.last = [op |-> "station", ok |-> FALSE,
                      goldCost |-> stationCost(e)[1],
                      materialCost |-> stationCost(e)[2], module |-> "none"]]

stationCompleteUpgrade(e) ==
  [e EXCEPT !.isUpgrading = FALSE, !.stationLevel = @ + 1]

moduleCost(e, m) ==
  IF e.moduleTiers[m] < MODULES_MAX_TIER THEN MODULE_COSTS[e.moduleTiers[m] + 1]
  ELSE 0

\* canUpgradeModule(moduleType)
moduleCanUpgrade(e, m) ==
  /\ e.moduleTiers[m] < MODULES_MAX_TIER
  /\ IF MATERIAL_TYPE(m) = "any"
       THEN e.collectedMaterials >= moduleCost(e, m)
       ELSE e.materialsByType[MATERIAL_TYPE(m)] >= moduleCost(e, m)

\* upgradeModule(moduleType): an "any" cost is taken from chest, junk and
\* slob in that order, each spend also coming off the total; a typed cost
\* comes off its type and off the total.
moduleUpgrade(e, m) ==
  LET cost == moduleCost(e, m)
      by == e.materialsByType
      c == Min(by["chest"], cost)
      j == Min(by["junk"], cost - c)
      s == Min(by["slob"], cost - c - j)
      spent == IF MATERIAL_TYPE(m) = "any"
                 THEN [t \in MaterialType |->
                         CASE t = "chest" -> c [] t = "junk" -> j [] OTHER -> s]
                 ELSE [t \in MaterialType |->
                         IF t = MATERIAL_TYPE(m) THEN cost ELSE 0]
  IN  [e EXCEPT !.materialsByType = [t \in MaterialType |-> by[t] - spent[t]],
                !.collectedMaterials = @ - (spent["chest"] + spent["junk"] + spent["slob"]),
                !.moduleTiers[m] = @ + 1]

\* tryUpgradeModule(moduleType), the handler of keys 1 to 4.
tryUpgradeModule(e, m, near) ==
  LET failed == [e EXCEPT !.last = [op |-> "module", ok |-> FALSE, goldCost |-> 0,
                                    materialCost |-> moduleCost(e, m), module |-> m]]
  IN  IF ~near \/ e.isUpgrading \/ e.stationLevel < MODULES_UNLOCK_LEVEL THEN failed
      ELSE IF moduleCanUpgrade(e, m)
        THEN [moduleUpgrade(e, m) EXCEPT
                !.last = [op |-> "module", ok |-> TRUE, goldCost |-> 0,
                          materialCost |-> moduleCost(e, m), module |-> m]]
      ELSE failed

\* MetaProgressionManager.spendGold(amount)
spendGold(e, amount) ==
  IF e.gold >= amount
    THEN [e EXCEPT !.gold = @ - amount,
                   !.last = [op |-> "spendGold", ok |-> TRUE, goldCost |-> amount,
                             materialCost |-> 0, module |-> "none"]]
    ELSE [e EXCEPT !.last = [op |-> "spendGold", ok |-> FALSE, goldCost |-> amount,
                             materialCost |-> 0, module |-> "none"]]

(***************************************************************************)
(* Number (IEEE 754 binary64) arithmetic                                   *)
(***************************************************************************)
\* A natural number of any size is held as its digits in base 2^10, least
\* significant first, without leading zeros.
RADIX_BITS == 10
RADIX == 2 ^ RADIX_BITS

RECURSIVE Digits(_)
Digits(n) == IF n = 0 THEN <<>> ELSE <<n % RADIX>> \o Digits(n \div RADIX)

RECURSIVE Trim(_)
Trim(b) ==
  IF b = <<>> THEN b
  ELSE IF b[Len(b)] = 0 THEN Trim(SubSeq(b, 1, Len(b) - 1))
  ELSE b

RECURSIVE AddCarry(_, _, _)
AddCarry(a, b, c) ==
  IF a = <<>> /\ b = <<>> THEN (IF c = 0 THEN <<>> ELSE <<c>>)
  ELSE LET x == IF a = <<>> THEN 0 ELSE a[1]
           y == IF b = <<>> THEN 0 ELSE b[1]
           s == x + y + c
       IN  <<s % RADIX>> \o AddCarry(IF a = <<>> THEN a ELSE Tail(a),
                                     IF b = <<>> THEN b ELSE Tail(b), s \div RADIX)

AddDigits(a, b) == AddCarry(a, b, 0)

\* b times a natural number n below 2^20.
RECURSIVE MulCarry(_, _, _)
MulCarry(b, n, c) ==
  IF b = <<>> THEN Digits(c)
  ELSE LET p == b[1] * n + c
       IN  <<p % RADIX>> \o MulCarry(Tail(b), n, p \div RADIX)

MulSmall(b, n) == IF n = 0 THEN <<>> ELSE MulCarry(b, n, 0)

\* Long division of b by a positive number d of at most 2^10, from the most
\* significant digit down: quotient and remainder.
RECURSIVE DivCarry(_, _, _)
DivCarry(b, d, r) ==
  IF b = <<>> THEN [q |-> <<>>, r |-> r]
  ELSE LET cur == r * RADIX + b[Len(b)]
           rest == DivCarry(SubSeq(b, 1, Len(b) - 1), d, cur % d)
       IN  [q |-> Append(rest.q, cur \div d), r |-> rest.r]

DivSmall(b, d) ==
  LET division == DivCarry(b, d, 0) IN [q |-> Trim(division.q), r |-> division.r]

\* b * 2^k
ShiftLeft(b, k) ==
  IF b = <<>> THEN b
  ELSE [i \in 1..(k \div RADIX_BITS) |-> 0] \o MulSmall(b, 2 ^ (k % RADIX_BITS))

\* floor(b / 2^k)
ShiftRight(b, k) ==
  IF k \div RADIX_BITS >= Len(b) THEN <<>>
  ELSE DivSmall(SubSeq(b, (k \div RADIX_BITS) + 1, Len(b)), 2 ^ (k % RADIX_BITS)).q

\* The number of binary digits of b.
BitLength(b) ==
  IF b = <<>> THEN 0
  ELSE (Len(b) - 1) * RADIX_BITS
         + (CHOOSE n \in 1..RADIX_BITS : 2 ^ (n - 1) <= b[Len(b)] /\ b[Len(b)] < 2 ^ n)

\* The binary digit of b worth 2^k.
BitAt(b, k) ==
  IF k \div RADIX_BITS >= Len(b) THEN 0
  ELSE (b[(k \div RADIX_BITS) + 1] \div (2 ^ (k % RADIX_BITS))) % 2

\* Some binary digit of b worth less than 2^k is 1.
AnyBitBelow(b, k) ==
  \/ \E i \in 1..Min(k \div RADIX_BITS, Len(b)) : b[i] # 0
  \/ /\ k \div RADIX_BITS < Len(b)
     /\ b[(k \div RADIX_BITS) + 1] % (2 ^ (k % RADIX_BITS)) # 0

\* The value of a digit sequence that fits a machine integer.
RECURSIVE Value(_)
Value(b) == IF b = <<>> THEN 0 ELSE b[1] + RADIX * Value(Tail(b))

\* -1, 0 or 1 as a is below, equal to or above b.
RECURSIVE CompareDigits(_, _)
CompareDigits(a, b) ==
  IF Len(a) # Len(b) THEN (IF Len(a) < Len(b) THEN -1 ELSE 1)
  ELSE IF a = <<>> THEN 0
  ELSE IF a[Len(a)] # b[Len(b)] THEN (IF a[Len(a)] < b[Len(b)] THEN -1 ELSE 1)
  ELSE CompareDigits(SubSeq(a, 1, Len(a) - 1), SubSeq(b, 1, Len(b) - 1))

\* Significand width of a Number.
MANTISSA_BITS == 53

\* A non-negative Number is m * 2^e.  Round m to 53 significant binary
\* digits, to nearest, ties to even; inexact tells that digits below m were
\* already dropped.
RoundNumber(m, e, inexact) ==
  IF BitLength(m) <= MANTISSA_BITS THEN [m |-> m, e |-> e]
  ELSE LET d == BitLength(m) - MANTISSA_BITS
           q == ShiftRight(m, d)
           sticky == inexact \/ AnyBitBelow(m, d - 1)
           up == BitAt(m, d - 1) = 1 /\ (sticky \/ q[1] % 2 = 1)
       IN  [m |-> IF up THEN AddDigits(q, <<1>>) ELSE q, e |-> e + d]

\* Binary digits kept below the point when a decimal literal is read.
LITERAL_SCALE == 60

\* The Number a decimal literal num/den denotes (0.15 is 15/100).
NumberLiteral(num, den) ==
  LET division == DivSmall(ShiftLeft(Digits(num), LITERAL_SCALE), den)
  IN  RoundNumber(division.q, -LITERAL_SCALE, division.r # 0)

NumberOf(n) == [m |-> Digits(n), e |-> 0]

\* x * n for a Number x and an integer n below 2^20, itself exact.
NumberTimes(x, n) == RoundNumber(MulSmall(x.m, n), x.e, FALSE)

NumberPlus(x, y) ==
  LET e == Min(x.e, y.e)
  IN  RoundNumber(AddDigits(ShiftLeft(x.m, x.e - e), ShiftLeft(y.m, y.e - e)), e, FALSE)

\* -1, 0 or 1 as x is below, equal to or above y.
NumberCompare(x, y) ==
  LET e == Min(x.e, y.e)
  IN  CompareDigits(ShiftLeft(x.m, x.e - e), ShiftLeft(y.m, y.e - e))

\* Math.min
NumberMin(x, y) == IF NumberCompare(y, x) < 0 THEN y ELSE x

\* Math.floor of a non-negative Number below 2^31.
NumberFloor(x) ==
  IF x.e >= 0 THEN Value(ShiftLeft(x.m, x.e)) ELSE Value(ShiftRight(x.m, -x.e))

(***************************************************************************)
(* Wave content: enemy type selection and boss scaling                     *)
(***************************************************************************)
\* The first wave whose spawns roll for an elite.
ELITE_INTRO_WAVE == 7

\* Math.min(0.5, 0.2 + (waveNumber - 7) * 0.05)
MAX_ELITE_CHANCE == NumberLiteral(5, 10)
BASE_ELITE_CHANCE == NumberLiteral(2, 10)
ELITE_CHANCE_PER_WAVE == NumberLiteral(5, 100)

\* 1 + (waveNumber - 3) * 0.15
BOSS_SCALE_RATE == NumberLiteral(15, 100)

\* Object.keys(BOSS_TYPES), in insertion order.
bossKeys == <<"boss_slime", "boss_skeleton", "boss_eye">>

\* BOSS_TYPES[key].hp
BOSS_HP(key) ==
  CASE key = "boss_slime"    -> 1500
    [] key = "boss_skeleton" -> 1050
    [] OTHER                 -> 900

\* The waves followed one by one, the far waves a long run reaches, and what
\* Math.random() returns, in hundredths.
MaxWave == 21
LargeWaves == {3000, 1000000}
RollPercents == {0, 19, 20, 35, 49, 50, 99}

NewWaves ==
  [waveNumber |-> 1, op |-> "new", roll |-> 0, rolled |-> FALSE,
   eliteChance |-> NumberOf(0), elite |-> FALSE, bossKey |-> "none", hp |-> 0]

eliteChanceUnclamped(w) ==
  NumberPlus(BASE_ELITE_CHANCE, NumberTimes(ELITE_CHANCE_PER_WAVE, w - ELITE_INTRO_WAVE))

\* selectEnemyType(): the chance the elite roll is made with.
eliteChance(w) ==
  NumberMin(MAX_ELITE_CHANCE,
            NumberPlus(BASE_ELITE_CHANCE,
                       NumberTimes(ELITE_CHANCE_PER_WAVE, w - ELITE_INTRO_WAVE)))

\* selectEnemyType(): waves up to 6 pick a base type without a roll; from
\* wave 7 an elite is picked when Math.random() < eliteChance.
selectEnemyType(v, roll) ==
  IF v.waveNumber < ELITE_INTRO_WAVE
    THEN [v EXCEPT !.op = "select", !.rolled = FALSE, !.roll = 0,
                   !.eliteChance = NumberOf(0), !.elite = FALSE]
    ELSE [v EXCEPT !.op = "select", !.rolled = TRUE, !.roll = roll,
                   !.eliteChance = eliteChance(v.waveNumber),
                   !.elite = NumberCompare(NumberLiteral(roll, 100),
                                           eliteChance(v.waveNumber)) < 0]

\* Math.floor((waveNumber / 3 - 1) % bossKeys.length), on a boss wave.
bossIndex(w) == ((w \div BossInterval) - 1) % Len(bossKeys)

\* Math.floor(bossConfig.hp * scaleFactor)
scaledHp(hp, w) ==
  NumberFloor(
    NumberTimes(NumberPlus(NumberOf(1), NumberTimes(BOSS_SCALE_RATE, w - BossIntroWave)),
                hp))

\* spawnBoss(): the boss type of the wave and its scaled hp.
spawnBossStats(v) ==
  LET key == bossKeys[bossIndex(v.waveNumber) + 1] IN
    [v EXCEPT !.op = "boss", !.bossKey = key,
              !.hp = scaledHp(BOSS_HP(key), v.waveNumber)]

(***************************************************************************)
(* The player's hit points: Entity.takeDamage, Player.heal and the heals   *)
(* of the station and the supply drops                                     *)
(***************************************************************************)
PLAYER_MAX_HP == 100
regenInterval == 1000

\* Damage of a hit, heal of a grant (the lingering regen heals 1 of 100 hit
\* points, the entry shield 15), frame lengths (ms).
HitAmounts == {30, 100}
HealAmounts == {1, 15}
RegenDeltas == {500}

NewPlayer ==
  [currentHp |-> PLAYER_MAX_HP, maxHp |-> PLAYER_MAX_HP, isAlive |-> TRUE,
   invincible |-> FALSE]

NewVitals == [player |-> NewPlayer, hpRegenAccumulator |-> 0]

\* Entity.takeDamage(amount) with die().
entityTakeDamage(p, amount) ==
  IF ~p.isAlive \/ p.invincible THEN p
  ELSE LET hp == Max(0, p.currentHp - amount) IN
         IF hp <= 0 THEN [p EXCEPT !.currentHp = hp, !.isAlive = FALSE]
         ELSE [p EXCEPT !.currentHp = hp]

\* Player.takeDamage(amount): a hit the player survives starts the
\* invincibility window.
playerTakeDamage(p, amount) ==
  LET q == entityTakeDamage(p, amount)
      died == q.isAlive # p.isAlive
  IN  IF ~died /\ q.isAlive THEN [q EXCEPT !.invincible = TRUE] ELSE q

\* Player.heal(amount), which overrides Entity.heal.
playerHeal(p, amount) == [p EXCEPT !.currentHp = Min(p.maxHp, p.currentHp + amount)]

\* applyLingeringRegen(delta) outside the zone with the regen buff held.
applyLingeringRegen(v, delta, healAmount) ==
  IF v.player.currentHp < v.player.maxHp
    THEN IF v.hpRegenAccumulator + delta >= regenInterval
           THEN [player |-> playerHeal(v.player, healAmount), hpRegenAccumulator |-> 0]
           ELSE [v EXCEPT !.hpRegenAccumulator = @ + delta]
    ELSE v

(***************************************************************************)
(* Pickups: XPGem / GoldCoin spawn, collect and deactivate, and the        *)
(* player-pickup overlap callbacks                                         *)
(***************************************************************************)
PickupKinds == {"gem", "coin"}

\* The values a pickup is spawned with and the frame lengths (ms).
PickupValues == {1, 5}
PickupDeltas == {50}

\* Frames are followed while fewer than MaxAwarded points have been
\* awarded.
MaxAwarded == 12

NewPickup(kind) ==
  [kind |-> kind, active |-> FALSE, value |-> 0, tweens |-> <<>>, awards |-> 0,
   awarded |-> 0]

\* The duration of the collection tween of collect().
collectDuration(kind) == IF kind = "gem" THEN 100 ELSE 150

\* XPGem.spawn / GoldCoin.spawn: the pooled object is activated with its
\* value; running tweens are not stopped.
spawnPickup(p, value) == [p EXCEPT !.active = TRUE, !.value = value, !.awards = 0]

\* XPGem.collect() / GoldCoin.collect(): starts the collection tween, whose
\* onComplete deactivates the pickup, and returns the value.
collectPickup(p) == [p EXCEPT !.tweens = Append(@, collectDuration(p.kind))]

\* handlePlayerGemCollision / handlePlayerGoldCollision: an active pickup is
\* collected and its value added to the player's XP or the session gold.
handlePlayerPickupCollision(p) ==
  IF p.active
    THEN [collectPickup(p) EXCEPT !.awards = @ + 1, !.awarded = @ + p.value]
    ELSE p

\* The tween manager advances the tweens by delta; a tween that completes
\* runs deactivate().
updateTweens(p, delta) ==
  LET ticked == [i \in 1..Len(p.tweens) |-> p.tweens[i] - delta]
      done == \E i \in 1..Len(ticked) : ticked[i] <= 0
  IN  [p EXCEPT !.tweens = SelectSeq(ticked, LAMBDA t : t > 0),
                !.active = IF done THEN FALSE ELSE @]

(***************************************************************************)
(* Wander mode: GameScene.setAllEnemiesWandering and the spawner's check   *)
(***************************************************************************)
\* Enemies are spawned while the group holds fewer than MaxHorde.
MaxHorde == 2

NewHordeMember(boss, wander) == [boss |-> boss, alive |-> TRUE, wander |-> wander]

\* setAllEnemiesWandering(wandering): setWandering on every active, alive
\* member of the group.
setAllEnemiesWandering(h, wandering) ==
  [i \in 1..Len(h) |-> IF h[i].alive THEN [h[i] EXCEPT !.wander = wandering] ELSE h[i]]

\* The callbacks GameScene registers on the station: entering the radius
\* sets every enemy wandering, leaving it and starting an upgrade set every
\* enemy pursuing.
onZoneCallbacks(h, cbs) ==
  IF cbs = <<"enter">> THEN setAllEnemiesWandering(h, TRUE)
  ELSE IF cbs = <<"leave">> THEN setAllEnemiesWandering(h, FALSE)
  ELSE h

(***************************************************************************)
(* Specifications                                                          *)
(***************************************************************************)
\* The zone variables as constructed, with an empty enemies group.
ZoneConstructed ==
  /\ playerDist = 450
  /\ sanctuaryShieldCooldownEnd = 0
  /\ zoneLog = NewZoneLog
  /\ hostiles = <<>>

\* Nothing has advanced before the first frame.
AuxConstructed ==
  /\ updateOrder = <<>>
  /\ fleet = <<>>
  /\ spawnEnv = NewSpawnEnv("snapshot")
  /\ spawnLog = NewSpawnLog
  /\ economy = NewEconomy
  /\ waves = NewWaves
  /\ flight = -1
  /\ killLog = NewKillLog
  /\ vitals = NewVitals
  /\ pickup = NewPickup("gem")
  /\ horde = <<>>

\* The attack managers and the combat objects as constructed; the targets
\* are basic enemies.
CombatConstructed ==
  /\ weapons = NewWeapons
  /\ launched = NoLaunch
  /\ enemies = [t \in Targets |-> NewEnemy(20)]
  /\ axe = NewAxe
  /\ orb = NewOrb
  /\ combatLog = NewCombatLog
  /\ AuxConstructed

\* The buff variables as constructed.
BuffConstructed ==
  /\ manager = "altar"
  /\ now = 0
  /\ frameDelta = 0
  /\ phase = "idle"
  /\ isPaused = FALSE
  /\ playerAt = "outside"
  /\ activeBuffs = <<>>
  /\ station = NewStation
  /\ trace = EmptyTrace
  /\ ZoneConstructed
  /\ CombatConstructed

PoolInit ==
  /\ group \in PoolKinds
  /\ children = [i \in 1..PoolSize(group) |-> NewMember]
  /\ acquired = -1
  /\ poolOp = "new"
  /\ spawner = NewSpawner
  /\ BuffConstructed

\* A fire/spawn request on a group other than daggers.
PoolFire ==
  /\ group # "daggers"
  /\ \E v \in Payloads, z \in BOOLEAN :
       /\ z => group \in Directed
       /\ children' = fire(children, v, z).members
       /\ acquired' = fire(children, v, z).ret
  /\ poolOp' = "fire"
  /\ UNCHANGED <<group, spawner, buffVars, zoneVars, attackVars, combatVars, auxVars>>

PoolFireDagger ==
  /\ group = "daggers"
  /\ \E v \in Payloads, n \in DaggerCounts :
       /\ children' = fireDagger(children, v, n).members
       /\ acquired' = fireDagger(children, v, n).ret
  /\ poolOp' = "fire"
  /\ UNCHANGED <<group, spawner, buffVars, zoneVars, attackVars, combatVars, auxVars>>

\* A collision handler or collect tween returns one active member.
PoolDeactivate ==
  /\ group \in Releasable
  /\ \E i \in 1..Len(children) :
       /\ children[i].active
       /\ children' = [children EXCEPT ![i] = deactivate(children[i])]
  /\ poolOp' = "deactivate"
  /\ acquired' = -1
  /\ UNCHANGED <<group, spawner, buffVars, zoneVars, attackVars, combatVars, auxVars>>

\* Manager update(delta): every member's update.
PoolUpdate ==
  /\ group \in Timed
  /\ \E delta \in PoolDeltas, back \in SUBSET (1..Len(children)) :
       /\ back # {} => group = "axes"
       /\ children' = [i \in 1..Len(children) |->
                         memberUpdate(group, children[i], delta, i \in back)]
  /\ poolOp' = "update"
  /\ acquired' = -1
  /\ UNCHANGED <<group, spawner, buffVars, zoneVars, attackVars, combatVars, auxVars>>

PoolNext == PoolFire \/ PoolFireDagger \/ PoolDeactivate \/ PoolUpdate

SpecPool == PoolInit /\ [][PoolNext]_vars

\* The engine's loop keeps calling GameScene.update, which updates every
\* member of the timed groups.
SpecPoolTicking == PoolInit /\ [][PoolNext]_vars /\ WF_vars(PoolUpdate)

SpawnerInit ==
  /\ spawner = NewSpawner
  /\ group = "projectiles"
  /\ children = [i \in 1..PoolSize(group) |-> NewMember]
  /\ acquired = -1
  /\ poolOp = "new"
  /\ BuffConstructed

\* One scheduler tick.
SpawnerTick ==
  /\ spawner.totalEnemiesSpawned < MaxSpawned
  /\ \E delta \in SpawnDeltas, inBounds \in BOOLEAN, far \in FarCounts,
        bossInBounds \in BOOLEAN :
       spawner' = spawnerUpdate(spawner, delta, inBounds, far, bossInBounds)
  /\ UNCHANGED <<poolVars, buffVars, zoneVars, attackVars, combatVars, auxVars>>

\* A dead enemy is destroyed when its death animation completes.
EnemyDestroyed ==
  /\ spawner.enemies > 0
  /\ spawner' = [spawner EXCEPT !.enemies = @ - 1]
  /\ UNCHANGED <<poolVars, buffVars, zoneVars, attackVars, combatVars, auxVars>>

SpawnerNext == SpawnerTick \/ EnemyDestroyed

SpecSpawner == SpawnerInit /\ [][SpawnerNext]_vars

BuffInit ==
  /\ manager \in {"altar", "station"}
  /\ now = 0
  /\ frameDelta = 0
  /\ phase = "idle"
  /\ isPaused = FALSE
  /\ playerAt \in (IF manager = "station" THEN PlayerPlaces ELSE {"outside"})
  /\ activeBuffs = <<>>
  /\ station = NewStation
  /\ trace = EmptyTrace
  /\ group = "projectiles"
  /\ children = [i \in 1..PoolSize(group) |-> NewMember]
  /\ acquired = -1
  /\ poolOp = "new"
  /\ spawner = NewSpawner
  /\ ZoneConstructed
  /\ CombatConstructed

\* A frame begins: the scene clock advances by the frame's delta.
ClockAdvance ==
  /\ phase = "idle"
  /\ \E delta \in BuffDeltas :
       /\ now + delta <= MaxTime
       /\ now' = now + delta
       /\ frameDelta' = delta
  /\ phase' = "clock"
  /\ trace' = EmptyTrace
  /\ UNCHANGED <<manager, isPaused, playerAt, activeBuffs, station, poolVars, spawner, zoneVars, attackVars, combatVars, auxVars>>

\* GameScene.update while isPaused: returns at once.
PausedFrame ==
  /\ phase = "clock"
  /\ isPaused
  /\ phase' = "idle"
  /\ UNCHANGED <<manager, now, frameDelta, isPaused, playerAt, activeBuffs, station,
                 trace, poolVars, spawner, zoneVars, attackVars, combatVars, auxVars>>

\* GameScene.update, observed at the AltarManager.
AltarFrame ==
  /\ manager = "altar"
  /\ phase = "clock"
  /\ ~isPaused
  /\ \E activated \in Activations :
       LET r == altarUpdate(activeBuffs, activated, now)
           timed == SelectSeq(activated, LAMBDA b : applyBuff(<<>>, b, now) # <<>>)
       IN  /\ activeBuffs' = r.buffs
           /\ trace' = [granted |-> [i \in 1..Len(timed) |->
                                        [type |-> timed[i].type,
                                         multiplier |-> timed[i].value,
                                         duration |-> timed[i].duration]],
                        regranted |-> {[type |-> e.type, multiplier |-> e.value,
                                        remaining |-> e.endTime - now] :
                                         e \in {activeBuffs[i] : i \in
                                                  {j \in 1..Len(activeBuffs) :
                                                     \E n \in 1..Len(timed) :
                                                       timed[n].type = activeBuffs[j].type}}},
                        expired |-> r.expired,
                        notified |-> r.notified]
  /\ phase' = "idle"
  /\ UNCHANGED <<manager, now, frameDelta, isPaused, playerAt, station, poolVars, spawner, zoneVars, attackVars, combatVars, auxVars>>

\* GameScene.update, observed at the SpaceStationManager: the player has
\* moved, then the station updates.
StationFrame ==
  /\ manager = "station"
  /\ phase = "clock"
  /\ ~isPaused
  /\ \E place \in PlayerPlaces :
       LET r == stationUpdate(station, frameDelta, place, now) IN
         /\ playerAt' = place
         /\ station' = r.station
         /\ trace' = [granted |-> [i \in 1..Len(r.granted) |->
                                      [type |-> r.granted[i].type,
                                       multiplier |-> r.granted[i].multiplier,
                                       duration |-> r.granted[i].maxDuration]],
                      regranted |-> {[type |-> e.type, multiplier |-> e.multiplier,
                                      remaining |-> e.remainingTime] :
                                       e \in {station.lingeringBuffs[i] : i \in
                                                {j \in 1..Len(station.lingeringBuffs) :
                                                   \E n \in 1..Len(r.granted) :
                                                     r.granted[n].type =
                                                       station.lingeringBuffs[j].type}}},
                      expired |-> r.expired,
                      notified |-> r.notified]
  /\ phase' = "idle"
  /\ UNCHANGED <<manager, now, frameDelta, isPaused, activeBuffs, poolVars, spawner, zoneVars, attackVars, combatVars, auxVars>>

\* openPlayerMenu() / showLevelUpUI().
PauseGame ==
  /\ phase = "idle"
  /\ ~isPaused
  /\ isPaused' = TRUE
  /\ UNCHANGED <<manager, now, frameDelta, phase, playerAt, activeBuffs, station,
                 trace, poolVars, spawner, zoneVars, attackVars, combatVars, auxVars>>

\* The menu or the level-up prompt closes.
ResumeGame ==
  /\ phase = "idle"
  /\ isPaused
  /\ isPaused' = FALSE
  /\ UNCHANGED <<manager, now, frameDelta, phase, playerAt, activeBuffs, station,
                 trace, poolVars, spawner, zoneVars, attackVars, combatVars, auxVars>>

\* keydown-E with the upgrade affordable; onUpgradeStart sets every enemy
\* pursuing.
KeyUpgrade ==
  /\ manager = "station"
  /\ phase = "idle"
  /\ canUpgrade(station, playerAt)
  /\ station' = startUpgrade(station, now)
  /\ horde' = setAllEnemiesWandering(horde, FALSE)
  /\ UNCHANGED <<manager, now, frameDelta, phase, isPaused, playerAt, activeBuffs,
                 trace, poolVars, spawner, zoneVars, attackVars, combatVars,
                 updateOrder, fleetVars, economy, waves, flight, killLog, vitals,
                 pickup>>

\* keydown-TWO / keydown-THREE with the module affordable.
KeyModule ==
  /\ manager = "station"
  /\ phase = "idle"
  /\ \E m \in ModuleKeys :
       /\ canUpgradeModule(station, playerAt, m)
       /\ station' = upgradeModule(station, m)
  /\ UNCHANGED <<manager, now, frameDelta, phase, isPaused, playerAt, activeBuffs,
                 trace, poolVars, spawner, zoneVars, attackVars, combatVars, auxVars>>

BuffNext ==
  \/ ClockAdvance
  \/ PausedFrame
  \/ AltarFrame
  \/ StationFrame
  \/ PauseGame
  \/ ResumeGame
  \/ KeyUpgrade
  \/ KeyModule

SpecBuff == BuffInit /\ [][BuffNext]_vars

\* Where the station is placed relative to the player is random.
ZoneInit ==
  /\ manager = "station"
  /\ now = 0
  /\ frameDelta = 0
  /\ phase = "idle"
  /\ isPaused = FALSE
  /\ playerDist \in PlayerDistances
  /\ playerAt = placeOf(NewStation, playerDist)
  /\ activeBuffs = <<>>
  /\ station = NewStation
  /\ trace = EmptyTrace
  /\ sanctuaryShieldCooldownEnd = 0
  /\ zoneLog = NewZoneLog
  /\ hostiles = <<>>
  /\ group = "projectiles"
  /\ children = [i \in 1..PoolSize(group) |-> NewMember]
  /\ acquired = -1
  /\ poolOp = "new"
  /\ spawner = NewSpawner
  /\ CombatConstructed

\* The part of GameScene.update from the station's side: the player and the
\* enemies have moved (to a distance of D, to the distances moved), then the
\* station updates.
StationStep(D, moved) ==
  /\ manager = "station"
  /\ phase = "clock"
  /\ ~isPaused
  /\ \E d \in D :
       LET s1 == IF station.isUpgrading
                   THEN updateUpgradeProgress(station, now) ELSE station
           place == placeOf(s1, d)
           cbs == zoneCallbacks(s1, place)
           r == stationUpdate(station, frameDelta, place, now)
           sh == IF cbs = <<"enter">>
                   THEN onPlayerEnterZone(sanctuaryShieldCooldownEnd, s1, now)
                   ELSE [cooldownEnd |-> sanctuaryShieldCooldownEnd, granted |-> FALSE]
       IN  /\ playerDist' = d
           /\ playerAt' = place
           /\ station' = r.station
           /\ sanctuaryShieldCooldownEnd' = sh.cooldownEnd
           /\ zoneLog' = [callbacks |-> cbs,
                          last |-> IF cbs = <<>> THEN zoneLog.last ELSE cbs[Len(cbs)],
                          shield |-> sh.granted,
                          shieldAt |-> IF sh.granted THEN now ELSE zoneLog.shieldAt]
           /\ hostiles' = pushEnemiesOutOfRadius(moved, r.station)
           /\ trace' = [granted |-> [i \in 1..Len(r.granted) |->
                                        [type |-> r.granted[i].type,
                                         multiplier |-> r.granted[i].multiplier,
                                         duration |-> r.granted[i].maxDuration]],
                        regranted |-> {},
                        expired |-> r.expired,
                        notified |-> r.notified]
  /\ phase' = "idle"
  /\ UNCHANGED <<manager, now, frameDelta, isPaused, activeBuffs, poolVars, spawner>>

\* The same with no fight going on.
StationTick(D, moved) == StationStep(D, moved) /\ UNCHANGED <<combatVars, auxVars>>

\* GameScene.update, observed at the zone boundary.
GateFrame(D, moved) == StationTick(D, moved) /\ UNCHANGED attackVars

\* A frame with no enemy on the map.
ZoneFrame == GateFrame(PlayerDistances, <<>>)

ZoneNext ==
  \/ ClockAdvance
  \/ PausedFrame
  \/ ZoneFrame
  \/ PauseGame
  \/ ResumeGame
  \/ KeyUpgrade

SpecZone == ZoneInit /\ [][ZoneNext]_vars

\* A frame with enemies on the map; the player is next to the station or
\* far from it.
EjectFrame == \E moved \in HostileMoves : GateFrame({50, 450}, moved)

EjectNext ==
  \/ ClockAdvance
  \/ EjectFrame
  \/ KeyUpgrade

SpecEject == ZoneInit /\ [][EjectNext]_vars

\* A frame of the attack specification begins.
AttackClock ==
  /\ phase = "idle"
  /\ \E delta \in AttackDeltas :
       /\ now + delta <= MaxAttackTime
       /\ now' = now + delta
       /\ frameDelta' = delta
  /\ phase' = "clock"
  /\ trace' = EmptyTrace
  /\ UNCHANGED <<manager, isPaused, playerAt, activeBuffs, station, poolVars, spawner,
                 zoneVars, attackVars, combatVars, auxVars>>

\* GameScene.update, observed at the attack managers: ProjectileManager.update
\* and WeaponManager.update ask the station whether the player may attack,
\* then the station updates.
AttackFrame ==
  \E near \in BOOLEAN :
    LET can == canPlayerAttack(station)
        p == projectileManagerUpdate(weapons, frameDelta, can, near)
        w == weaponManagerUpdate(p.weapons, frameDelta, can, near)
    IN  /\ weapons' = w.weapons
        /\ launched' = [kinds |-> p.kinds \cup w.kinds, allowed |-> can, near |-> near]
        /\ StationTick({50, 450}, <<>>)

\* A level-up choice unlocks the axe or the dagger.
UnlockWeapon ==
  /\ phase = "idle"
  /\ \E type \in WeaponKeys :
       /\ ~(IF type = "axe" THEN weapons.hasAxe ELSE weapons.hasDagger)
       /\ weapons' = unlockWeapon(weapons, type)
  /\ UNCHANGED <<launched, poolVars, spawner, buffVars, zoneVars, combatVars, auxVars>>

AttackNext ==
  \/ AttackClock
  \/ AttackFrame
  \/ KeyUpgrade
  \/ UnlockWeapon

SpecAttack == ZoneInit /\ [][AttackNext]_vars

\* The start of a fight: targets of either type, the axe and the orb in
\* their pools, everything else as constructed.
CombatInit ==
  /\ enemies \in [Targets -> {NewEnemy(h) : h \in SpawnHp}]
  /\ weapons = NewWeapons
  /\ launched = NoLaunch
  /\ axe = NewAxe
  /\ orb = NewOrb
  /\ combatLog = NewCombatLog
  /\ AuxConstructed
  /\ manager = "altar"
  /\ now = 0
  /\ frameDelta = 0
  /\ phase = "idle"
  /\ isPaused = FALSE
  /\ playerAt = "outside"
  /\ activeBuffs = <<>>
  /\ station = NewStation
  /\ trace = EmptyTrace
  /\ ZoneConstructed
  /\ group = "projectiles"
  /\ children = [i \in 1..PoolSize(group) |-> NewMember]
  /\ acquired = -1
  /\ poolOp = "new"
  /\ spawner = NewSpawner

\* WeaponManager.update, observed at one axe: the physics step has moved it,
\* update() runs, then fireAxe may pick it if it is in the pool.
AxeFrame ==
  /\ \E delta \in CombatDeltas, fireNow \in BOOLEAN, zeroDir \in BOOLEAN :
       LET a1 == axeUpdate(axeMove(axe, delta), delta)
           a2 == IF fireNow /\ ~a1.active THEN axeFire(a1, zeroDir) ELSE a1
           newPass == (a1.returning /\ ~axe.returning) \/ (a2.active /\ ~a1.active)
       IN  /\ axe' = a2
           /\ combatLog' = [combatLog EXCEPT
                              !.by = "update", !.target = 0, !.applied = FALSE,
                              !.hits = 0,
                              !.axeHits = IF newPass THEN [t \in Targets |-> 0] ELSE @]
  /\ UNCHANGED <<enemies, orb, poolVars, spawner, buffVars, zoneVars, attackVars, auxVars>>

\* handleAxeEnemyCollision.
AxeEnemyCollision ==
  /\ \E t \in Targets :
       LET e == enemies[t]
           reached == axe.active /\ alive(e)
           c == canHitEnemy(axe, t)
           applied == reached /\ c.ok
       IN  /\ axe' = IF reached THEN c.axe ELSE axe
           /\ enemies' = IF applied
                           THEN [enemies EXCEPT ![t] = takeDamage(e, AXE_DAMAGE)]
                           ELSE enemies
           /\ combatLog' = [combatLog EXCEPT
                              !.by = "axe", !.target = t, !.applied = applied,
                              !.hits = Min(@ + 1, MaxHits),
                              !.axeHits[t] = IF applied THEN @ + 1 ELSE @]
  /\ UNCHANGED <<orb, poolVars, spawner, buffVars, zoneVars, attackVars, auxVars>>

\* handleProjectileEnemyCollision, for a projectile in flight.
ProjectileEnemyCollision ==
  /\ \E t \in Targets :
       LET e == enemies[t]
           applied == alive(e)
       IN  /\ enemies' = IF applied
                           THEN [enemies EXCEPT ![t] = takeDamage(e, PROJECTILE_DAMAGE)]
                           ELSE enemies
           /\ combatLog' = [combatLog EXCEPT
                              !.by = "projectile", !.target = t, !.applied = applied,
                              !.hits = Min(@ + 1, MaxHits)]
  /\ UNCHANGED <<axe, orb, poolVars, spawner, buffVars, zoneVars, attackVars, auxVars>>

\* handleDaggerEnemyCollision, for a dagger in flight.
DaggerEnemyCollision ==
  /\ \E t \in Targets :
       LET e == enemies[t]
           applied == alive(e)
       IN  /\ enemies' = IF applied
                           THEN [enemies EXCEPT ![t] = takeDamage(e, DAGGER_DAMAGE)]
                           ELSE enemies
           /\ combatLog' = [combatLog EXCEPT
                              !.by = "dagger", !.target = t, !.applied = applied,
                              !.hits = Min(@ + 1, MaxHits)]
  /\ UNCHANGED <<axe, orb, poolVars, spawner, buffVars, zoneVars, attackVars, auxVars>>

HitNext ==
  \/ AxeFrame
  \/ AxeEnemyCollision
  \/ ProjectileEnemyCollision
  \/ DaggerEnemyCollision

SpecHit == CombatInit /\ [][HitNext]_vars

\* unlockWeapon(ORB) / upgradeWeapon(ORB): activateOrbs takes the orb out of
\* the pool.
OrbActivate ==
  /\ ~orb.active
  /\ orb' = orbActivate(orb)
  /\ combatLog' = [combatLog EXCEPT !.by = "activate", !.target = 0, !.applied = FALSE]
  /\ UNCHANGED <<enemies, axe, poolVars, spawner, buffVars, zoneVars, attackVars, auxVars>>

\* WeaponManager.update, observed at one orb.
OrbFrame ==
  /\ \E delta \in OrbDeltas :
       /\ orb' = orbUpdate(orb, delta)
       /\ combatLog' = [combatLog EXCEPT
                          !.by = "update", !.target = 0, !.applied = FALSE,
                          !.hits = 0,
                          !.orbSince = [t \in Targets |->
                                          IF ~orb.active \/ @[t] = -1
                                            THEN @[t]
                                            ELSE Min(@[t] + delta, ORB_DAMAGE_COOLDOWN)]]
  /\ UNCHANGED <<enemies, axe, poolVars, spawner, buffVars, zoneVars, attackVars, auxVars>>

\* handleOrbEnemyCollision.
OrbEnemyCollision ==
  /\ \E t \in Targets :
       LET e == enemies[t]
           reached == orb.active /\ alive(e)
           c == canDamageEnemy(orb, t)
           applied == reached /\ c.ok
       IN  /\ orb' = IF reached THEN c.orb ELSE orb
           /\ enemies' = IF applied
                           THEN [enemies EXCEPT ![t] = takeDamage(e, ORB_DAMAGE)]
                           ELSE enemies
           /\ combatLog' = [combatLog EXCEPT
                              !.by = "orb", !.target = t, !.applied = applied,
                              !.hits = Min(@ + 1, MaxHits),
                              !.since = combatLog.orbSince[t],
                              !.orbSince[t] = IF applied THEN 0 ELSE @]
  /\ UNCHANGED <<axe, poolVars, spawner, buffVars, zoneVars, attackVars, auxVars>>

OrbNext ==
  \/ OrbActivate
  \/ OrbFrame
  \/ OrbEnemyCollision

SpecOrb == CombatInit /\ [][OrbNext]_vars

\* A frame begins; nothing has advanced in it yet.
OrderClock ==
  /\ phase = "idle"
  /\ \E delta \in BuffDeltas :
       /\ now + delta <= MaxTime
       /\ now' = now + delta
       /\ frameDelta' = delta
  /\ phase' = "clock"
  /\ trace' = EmptyTrace
  /\ updateOrder' = <<>>
  /\ UNCHANGED <<manager, isPaused, playerAt, activeBuffs, station, poolVars, spawner,
                 zoneVars, attackVars, combatVars,
                 fleetVars, economy, waves, flight, killLog, vitals, pickup, horde>>

\* GameScene.update, observed as the sequence of its calls.
OrderFrame ==
  /\ phase = "clock"
  /\ ~isPaused
  /\ phase' = "idle"
  /\ updateOrder' = gameSceneUpdate(updateOrder)
  /\ combatLog' = [combatLog EXCEPT !.hits = 0]
  /\ UNCHANGED <<manager, now, frameDelta, isPaused, playerAt, activeBuffs, station,
                 trace, poolVars, spawner, zoneVars, attackVars, enemies, axe, orb,
                 fleetVars, economy, waves, flight, killLog, vitals, pickup, horde>>

\* The physics step calls handleProjectileEnemyCollision for an overlapping
\* pair: before update() or after it, never inside it; not while the
\* physics is paused.
OrderCollision ==
  /\ ~isPaused
  /\ combatLog.hits < MaxHits
  /\ \E t \in Targets :
       LET e == enemies[t]
           applied == alive(e)
       IN  /\ enemies' = IF applied
                           THEN [enemies EXCEPT ![t] = takeDamage(e, PROJECTILE_DAMAGE)]
                           ELSE enemies
           /\ combatLog' = [combatLog EXCEPT
                              !.by = "projectile", !.target = t, !.applied = applied,
                              !.hits = @ + 1]
  /\ updateOrder' = Append(updateOrder, "CombatResolver")
  /\ UNCHANGED <<axe, orb, poolVars, spawner, buffVars, zoneVars, attackVars,
                 fleetVars, economy, waves, flight, killLog, vitals, pickup, horde>>

OrderNext ==
  \/ OrderClock
  \/ PausedFrame
  \/ OrderFrame
  \/ OrderCollision
  \/ PauseGame
  \/ ResumeGame

SpecOrder == CombatInit /\ [][OrderNext]_vars

\* Everything but the spawner's enemies, the resources and the wave content,
\* as constructed.
CoreConstructed ==
  /\ spawner = NewSpawner
  /\ group = "projectiles"
  /\ children = [i \in 1..PoolSize(group) |-> NewMember]
  /\ acquired = -1
  /\ poolOp = "new"
  /\ manager = "altar"
  /\ now = 0
  /\ frameDelta = 0
  /\ phase = "idle"
  /\ isPaused = FALSE
  /\ playerAt = "outside"
  /\ activeBuffs = <<>>
  /\ station = NewStation
  /\ trace = EmptyTrace
  /\ ZoneConstructed
  /\ weapons = NewWeapons
  /\ launched = NoLaunch
  /\ enemies = [t \in Targets |-> NewEnemy(20)]
  /\ axe = NewAxe
  /\ orb = NewOrb
  /\ combatLog = NewCombatLog

\* The spawner as constructed, under either engine build.
FleetInit ==
  /\ fleet = <<>>
  /\ spawnEnv \in {NewSpawnEnv(it) : it \in GroupIterations}
  /\ spawnLog = NewSpawnLog
  /\ updateOrder = <<>>
  /\ economy = NewEconomy
  /\ waves = NewWaves
  /\ CoreConstructed
  /\ flight = -1
  /\ killLog = NewKillLog
  /\ vitals = NewVitals
  /\ pickup = NewPickup("gem")
  /\ horde = <<>>

\* EnemySpawner.update, observed enemy by enemy: the player and the enemies
\* have moved, then spawn timer, despawn, difficulty.  The kill events it
\* emits are recorded when logged.
FleetStep(logged) ==
  /\ spawner.totalEnemiesSpawned < MaxFleetSpawned
  /\ Len(fleet) + 2 <= MaxFleet
  /\ \E delta \in SpawnDeltas, inBounds \in BOOLEAN, bossInBounds \in BOOLEAN,
        inside \in BOOLEAN, moved \in [1..Len(fleet) -> FleetDistances] :
       LET f0 == [i \in 1..Len(fleet) |-> [fleet[i] EXCEPT !.dist = moved[i]]]
           s0 == [spawner EXCEPT !.timeSinceLastSpawn = @ + delta]
           due == s0.timeSinceLastSpawn >= s0.spawnInterval
           s1 == IF due THEN trySpawnEnemy(s0, inBounds) ELSE s0
           spawned == s1.totalEnemiesSpawned > s0.totalEnemiesSpawned
           wander == startsWandering(spawnEnv.predicate, inside)
           f1 == IF spawned THEN Append(f0, NewFleetMember(FALSE)) ELSE f0
           f2 == despawnFar(f1, spawnEnv.iteration)
           s3 == spawnerUpdate(spawner, delta, inBounds, Len(f1) - Len(f2), bossInBounds)
           bossBorn == Len(s3.bossWaves) > Len(spawner.bossWaves)
           f3 == IF bossBorn THEN Append(f2, NewFleetMember(TRUE)) ELSE f2
       IN  /\ spawner' = s3
           /\ fleet' = f3
           /\ spawnLog' =
                [tick |-> 1 - spawnLog.tick,
                 attempt |-> IF ~due THEN "none"
                             ELSE IF spawned THEN "spawned"
                             ELSE IF s0.enemies >= MAX_ENEMIES_ON_SCREEN THEN "full"
                             ELSE "rejected",
                 born |-> (IF spawned THEN <<[boss |-> FALSE, wander |-> wander]>>
                           ELSE <<>>)
                            \o (IF bossBorn THEN <<[boss |-> TRUE, wander |-> wander]>>
                                ELSE <<>>),
                 registered |-> spawnEnv.predicate,
                 protected |-> inside]
           /\ killLog' =
                IF logged
                  THEN [culled |-> Len(f1) - Len(f2),
                        bossesCulled |-> Bosses(f1) - Bosses(f2),
                        events |-> despawnEvents(Len(f1) - Len(f2),
                                                 Bosses(f1) - Bosses(f2))]
                  ELSE killLog
  /\ UNCHANGED <<spawnEnv, updateOrder, poolVars, buffVars, zoneVars, attackVars,
                 combatVars, economy, waves, flight, vitals, pickup, horde>>

FleetTick == FleetStep(FALSE)

\* setIsPlayerInSafeZone(callback).
RegisterPredicate ==
  /\ ~spawnEnv.predicate
  /\ spawnEnv' = [spawnEnv EXCEPT !.predicate = TRUE]
  /\ UNCHANGED <<fleet, spawnLog, updateOrder, spawner, poolVars, buffVars, zoneVars,
                 attackVars, combatVars, economy, waves, flight, killLog, vitals, pickup, horde>>

\* An enemy's hit points reach 0: die() runs onDeath, which runs the death
\* callback; the enemy stays in the group while its death animation plays.
\* (Which members of the group are dying is not recorded.)
FleetKilled ==
  /\ \E i \in 1..Len(fleet) :
       killLog' = [NewKillLog EXCEPT !.events = onDeathEvents(fleet[i].boss)]
  /\ UNCHANGED <<fleet, spawner, spawnEnv, spawnLog, updateOrder, poolVars, buffVars,
                 zoneVars, attackVars, combatVars, economy, waves, flight, vitals, pickup, horde>>

\* A dead enemy is destroyed when its death animation completes.
FleetDestroyed ==
  /\ \E i \in 1..Len(fleet) : fleet' = RemoveAt(fleet, i)
  /\ spawner' = [spawner EXCEPT !.enemies = @ - 1]
  /\ UNCHANGED <<spawnEnv, spawnLog, updateOrder, poolVars, buffVars, zoneVars,
                 attackVars, combatVars, economy, waves, flight, killLog, vitals, pickup, horde>>

FleetNext ==
  \/ FleetTick
  \/ RegisterPredicate
  \/ FleetDestroyed

SpecFleet == FleetInit /\ [][FleetNext]_vars

\* The spawner after createSystems has registered the protection predicate.
CullInit ==
  /\ fleet = <<>>
  /\ spawnEnv \in {[NewSpawnEnv(it) EXCEPT !.predicate = TRUE] : it \in GroupIterations}
  /\ spawnLog = NewSpawnLog
  /\ updateOrder = <<>>
  /\ economy = NewEconomy
  /\ waves = NewWaves
  /\ flight = -1
  /\ killLog = NewKillLog
  /\ CoreConstructed
  /\ vitals = NewVitals
  /\ pickup = NewPickup("gem")
  /\ horde = <<>>

\* EnemySpawner.update with the kill events it emits.
CullTick == FleetStep(TRUE)

CullNext ==
  \/ CullTick
  \/ FleetKilled
  \/ FleetDestroyed

SpecCull == CullInit /\ [][CullNext]_vars

\* Every other subsystem stays as constructed while the player is hit and
\* healed.
VitalsRest ==
  UNCHANGED <<updateOrder, fleetVars, economy, waves, flight, killLog, pickup, spawner,
              poolVars, buffVars, zoneVars, attackVars, combatVars, horde>>

\* handlePlayerEnemyCollision / an enemy projectile hits the player.
PlayerHit ==
  /\ \E amount \in HitAmounts :
       vitals' = [vitals EXCEPT !.player = playerTakeDamage(@, amount)]
  /\ VitalsRest

\* The delayed call of setInvincible runs.
InvincibilityEnds ==
  /\ vitals.player.invincible
  /\ vitals' = [vitals EXCEPT !.player.invincible = FALSE]
  /\ VitalsRest

\* SpaceStationManager.update outside the zone with the regen buff held.
LingeringRegen ==
  /\ \E delta \in RegenDeltas :
       vitals' = applyLingeringRegen(vitals, delta, 1)
  /\ VitalsRest

\* onPlayerEnterZone() at level 2 with the shield off cooldown.
EntryShield ==
  /\ vitals' = [vitals EXCEPT !.player = playerHeal(@, 15)]
  /\ VitalsRest

\* setOnHealthCollected: a supply drop of the health kind is opened.
SupplyHealth ==
  /\ \E amount \in HealAmounts :
       vitals' = [vitals EXCEPT !.player = playerHeal(@, amount)]
  /\ VitalsRest

VitalsNext ==
  \/ PlayerHit
  \/ InvincibilityEnds
  \/ LingeringRegen
  \/ EntryShield
  \/ SupplyHealth

SpecVitals == FleetInit /\ [][VitalsNext]_vars

\* Every other subsystem stays as constructed while pickups are collected.
PickupRest ==
  UNCHANGED <<updateOrder, fleetVars, economy, waves, flight, killLog, vitals, spawner,
              poolVars, buffVars, zoneVars, attackVars, combatVars, horde>>

\* A pickup of either pool, as constructed.
PickupInit ==
  /\ fleet = <<>>
  /\ spawnEnv = NewSpawnEnv("snapshot")
  /\ spawnLog = NewSpawnLog
  /\ updateOrder = <<>>
  /\ economy = NewEconomy
  /\ waves = NewWaves
  /\ flight = -1
  /\ killLog = NewKillLog
  /\ vitals = NewVitals
  /\ pickup \in {NewPickup(k) : k \in PickupKinds}
  /\ CoreConstructed
  /\ horde = <<>>

\* spawnGems / spawnFromEnemy takes the inactive pooled pickup.
PickupSpawned ==
  /\ ~pickup.active
  /\ \E value \in PickupValues : pickup' = spawnPickup(pickup, value)
  /\ PickupRest

\* A frame passes: the tweens advance by the frame's length, then the
\* physics step runs the overlap callback if the player overlaps the pickup.
PickupFrame ==
  /\ pickup.awarded < MaxAwarded
  /\ \E delta \in PickupDeltas, overlapping \in BOOLEAN :
       LET p1 == updateTweens(pickup, delta) IN
         pickup' = IF overlapping THEN handlePlayerPickupCollision(p1) ELSE p1
  /\ PickupRest

PickupNext ==
  \/ PickupSpawned
  \/ PickupFrame

SpecPickup == PickupInit /\ [][PickupNext]_vars

\* keydown-E with the upgrade affordable, while the scene clock has room
\* for the countdown.
KeyUpgradeInTime ==
  /\ now + getUpgradeTime(station) <= MaxTime
  /\ KeyUpgrade

UpgradeNext ==
  \/ ClockAdvance
  \/ ZoneFrame
  \/ KeyUpgradeInTime

\* The engine's loop keeps calling GameScene.update: the clock advances and
\* the frame runs.
SpecUpgrade ==
  /\ ZoneInit
  /\ [][UpgradeNext]_vars
  /\ WF_vars(ClockAdvance)
  /\ WF_vars(ZoneFrame)

\* Frames of the run around the station are followed up to MaxWanderTime.
MaxWanderTime == 15000
WanderDeltas == {5000}

WanderClock ==
  /\ phase = "idle"
  /\ \E delta \in WanderDeltas :
       /\ now + delta <= MaxWanderTime
       /\ now' = now + delta
       /\ frameDelta' = delta
  /\ phase' = "clock"
  /\ trace' = EmptyTrace
  /\ UNCHANGED <<manager, isPaused, playerAt, activeBuffs, station, poolVars, spawner,
                 zoneVars, attackVars, combatVars, auxVars>>

\* GameScene.update with enemies on the map: EnemySpawner.update spawns an
\* enemy, a boss, both or none, each wandering if the station says the
\* player is in the safe zone; then the station updates and its boundary
\* callbacks run.
WanderFrame ==
  /\ \E regular \in BOOLEAN, boss \in BOOLEAN :
       LET inside == startsWandering(TRUE, station.playerInsideRadius)
           h1 == IF regular /\ Len(horde) < MaxHorde
                   THEN Append(horde, NewHordeMember(FALSE, inside)) ELSE horde
           h2 == IF boss /\ Len(h1) < MaxHorde
                   THEN Append(h1, NewHordeMember(TRUE, inside)) ELSE h1
       IN  /\ StationStep(PlayerDistances, <<>>)
           /\ horde' = onZoneCallbacks(h2, zoneLog'.callbacks)
  /\ UNCHANGED <<attackVars, combatVars, updateOrder, fleetVars, economy, waves,
                 flight, killLog, vitals, pickup>>

\* An enemy's hit points reach 0; it stays in the group while its death
\* animation plays.
HordeKilled ==
  /\ \E i \in 1..Len(horde) :
       /\ horde[i].alive
       /\ horde' = [horde EXCEPT ![i].alive = FALSE]
  /\ UNCHANGED <<buffVars, poolVars, spawner, zoneVars, attackVars, combatVars,
                 updateOrder, fleetVars, economy, waves, flight, killLog, vitals,
                 pickup>>

\* A dead enemy is destroyed when its death animation completes.
HordeDestroyed ==
  /\ \E i \in 1..Len(horde) :
       /\ ~horde[i].alive
       /\ horde' = RemoveAt(horde, i)
  /\ UNCHANGED <<buffVars, poolVars, spawner, zoneVars, attackVars, combatVars,
                 updateOrder, fleetVars, economy, waves, flight, killLog, vitals,
                 pickup>>

WanderNext ==
  \/ WanderClock
  \/ PausedFrame
  \/ WanderFrame
  \/ PauseGame
  \/ ResumeGame
  \/ KeyUpgrade
  \/ HordeKilled
  \/ HordeDestroyed

SpecWander == ZoneInit /\ [][WanderNext]_vars

\* Every other subsystem stays as constructed while resources move.
EconomyRest ==
  UNCHANGED <<updateOrder, fleetVars, spawner, poolVars, buffVars, zoneVars,
              attackVars, combatVars, waves, flight, killLog, vitals, pickup, horde>>

Attempted(e) == [e EXCEPT !.tick = 1 - @]

MaterialCollected ==
  /\ economy.picked < MaxMaterials
  /\ \E t \in MaterialType :
       economy' = [collectMaterial(economy, t) EXCEPT !.picked = @ + 1]
  /\ EconomyRest

\* A supply drop of the material kind is opened.
SupplyDropCollected ==
  /\ economy.picked + SUPPLY_MATERIAL_AMOUNT <= MaxMaterials
  /\ economy' = [addMaterials(economy, SUPPLY_MATERIAL_AMOUNT)
                   EXCEPT !.picked = @ + SUPPLY_MATERIAL_AMOUNT]
  /\ EconomyRest

\* A coin is collected during the run.
GoldCollected ==
  /\ economy.earned < MaxGold
  /\ \E a \in GoldAmounts :
       economy' = [economy EXCEPT !.sessionGold = @ + a, !.earned = @ + a]
  /\ EconomyRest

\* A run's payout reaches the saved gold.
GoldSaved ==
  /\ economy.gold < MaxGold
  /\ \E a \in GoldAmounts : economy' = [economy EXCEPT !.gold = @ + a]
  /\ EconomyRest

KeydownE ==
  /\ \E near \in BOOLEAN : economy' = Attempted(keydownE(economy, near))
  /\ EconomyRest

KeydownModule ==
  /\ \E m \in ModuleType, near \in BOOLEAN :
       economy' = Attempted(tryUpgradeModule(economy, m, near))
  /\ EconomyRest

\* updateUpgradeProgress() finds the upgrade time elapsed.
UpgradeCompletes ==
  /\ economy.isUpgrading
  /\ economy' = stationCompleteUpgrade(economy)
  /\ EconomyRest

SpendGold ==
  /\ \E a \in SpendAmounts : economy' = Attempted(spendGold(economy, a))
  /\ EconomyRest

EconomyNext ==
  \/ MaterialCollected
  \/ SupplyDropCollected
  \/ GoldCollected
  \/ GoldSaved
  \/ KeydownE
  \/ KeydownModule
  \/ UpgradeCompletes
  \/ SpendGold

SpecEconomy == FleetInit /\ [][EconomyNext]_vars

WavesRest ==
  UNCHANGED <<updateOrder, fleetVars, economy, spawner, poolVars, buffVars, zoneVars,
              attackVars, combatVars, flight, killLog, vitals, pickup, horde>>

\* A run at its first wave or far into it.
WavesInit ==
  /\ waves \in {[NewWaves EXCEPT !.waveNumber = w] : w \in {1} \cup LargeWaves}
  /\ fleet = <<>>
  /\ spawnEnv = NewSpawnEnv("snapshot")
  /\ spawnLog = NewSpawnLog
  /\ updateOrder = <<>>
  /\ economy = NewEconomy
  /\ CoreConstructed
  /\ flight = -1
  /\ killLog = NewKillLog
  /\ vitals = NewVitals
  /\ pickup = NewPickup("gem")
  /\ horde = <<>>

\* trySpawnEnemy() picks the type of the enemy it constructs.
SelectEnemyType ==
  /\ \E roll \in RollPercents : waves' = selectEnemyType(waves, roll)
  /\ WavesRest

\* updateDifficulty() reaches a boss wave and calls spawnBoss().
SpawnBossStats ==
  /\ waves.waveNumber % BossInterval = 0
  /\ waves.waveNumber >= BossIntroWave
  /\ waves' = spawnBossStats(waves)
  /\ WavesRest

\* updateDifficulty() moves to the next wave.
WaveAdvances ==
  /\ waves.waveNumber < MaxWave
  /\ waves' = [waves EXCEPT !.waveNumber = @ + 1, !.op = "wave"]
  /\ WavesRest

WavesNext ==
  \/ SelectEnemyType
  \/ SpawnBossStats
  \/ WaveAdvances

SpecWaves == WavesInit /\ [][WavesNext]_vars

\* Frames of a fight at the zone boundary are followed up to MaxShelterTime.
MaxShelterTime == 800
ShelterDeltas == {200}

ShelterClock ==
  /\ phase = "idle"
  /\ \E delta \in ShelterDeltas :
       /\ now + delta <= MaxShelterTime
       /\ now' = now + delta
       /\ frameDelta' = delta
  /\ phase' = "clock"
  /\ trace' = EmptyTrace
  /\ UNCHANGED <<manager, isPaused, playerAt, activeBuffs, station, poolVars, spawner,
                 zoneVars, attackVars, combatVars, auxVars>>

\* GameScene.update with a fight going on at the zone boundary: the
\* projectiles and the orb update, ProjectileManager and WeaponManager ask
\* the station whether the player may attack, then the station updates.
ShelterFrame ==
  \E near \in BOOLEAN :
    LET can == canPlayerAttack(station)
        aged == projectileUpdate(flight, frameDelta)
        p == projectileManagerUpdate(weapons, frameDelta, can, near)
        w == weaponManagerUpdate(p.weapons, frameDelta, can, near)
    IN  /\ weapons' = w.weapons
        /\ launched' = [kinds |-> p.kinds \cup w.kinds, allowed |-> can, near |-> near]
        /\ flight' = IF "projectile" \in p.kinds /\ aged = -1 THEN 0 ELSE aged
        /\ orb' = orbUpdate(orb, frameDelta)
        /\ combatLog' = [combatLog EXCEPT
                           !.by = "update", !.target = 0, !.applied = FALSE,
                           !.hits = 0,
                           !.orbSince = [t \in Targets |->
                                           IF ~orb.active \/ @[t] = -1
                                             THEN @[t]
                                             ELSE Min(@[t] + frameDelta,
                                                      ORB_DAMAGE_COOLDOWN)]]
        /\ StationStep({50, 450}, <<>>)
        /\ UNCHANGED <<enemies, axe, updateOrder, fleetVars, economy, waves, killLog, vitals, pickup, horde>>

\* handleProjectileEnemyCollision for the projectile in flight: the physics
\* step finds it overlapping an enemy.
ShelterProjectileHit ==
  /\ flight >= 0
  /\ combatLog.hits < MaxHits
  /\ \E t \in Targets :
       LET e == enemies[t]
           applied == alive(e)
       IN  /\ enemies' = IF applied
                           THEN [enemies EXCEPT ![t] = takeDamage(e, PROJECTILE_DAMAGE)]
                           ELSE enemies
           /\ flight' = IF applied THEN -1 ELSE flight
           /\ combatLog' = [combatLog EXCEPT
                              !.by = "projectile", !.target = t, !.applied = applied,
                              !.hits = @ + 1]
  /\ UNCHANGED <<axe, orb, poolVars, spawner, buffVars, zoneVars, attackVars,
                 updateOrder, fleetVars, economy, waves, killLog, vitals, pickup, horde>>

ShelterNext ==
  \/ ShelterClock
  \/ ShelterFrame
  \/ ShelterProjectileHit
  \/ OrbActivate
  \/ OrbEnemyCollision

SpecShelter == ZoneInit /\ [][ShelterNext]_vars

activeCount == Cardinality({i \in 1..Len(children) : children[i].active})

allActive == \A i \in 1..Len(children) : children[i].active

\* C1: in every pooled group, after any sequence of fire/spawn, deactivate and
\* update operations, the number of active members is at most the group's
\* capacity and the group still has exactly the members it was built with.
PoolBound ==
  /\ activeCount <= PoolSize(group)
  /\ Len(children) = PoolSize(group)

\* A successful acquire has just filled the group to capacity.
PoolBoundWitness ==
  /\ poolOp = "fire"
  /\ acquired > 0
  /\ activeCount = PoolSize(group)

\* C2: a fire/spawn request on a group whose members are all active obtains
\* no member (null) and leaves every member exactly as it was.
ExhaustedFireIsNoOp ==
  [][(poolOp' = "fire" /\ allActive) => (acquired' = 0 /\ children' = children)]_vars

\* A request has just been dropped on a full group that holds a member
\* already in flight (lifespan > 0) or carrying a non-default payload.
ExhaustedFireWitness ==
  /\ poolOp = "fire"
  /\ acquired = 0
  /\ allActive
  /\ \E i \in 1..Len(children) :
       children[i].lifespan > 0 \/ children[i].value # NewMember.value

bossesFor(w) ==
  Cardinality({i \in 1..Len(spawner.bossWaves) : spawner.bossWaves[i] = w})

\* C3: for every wave value W, spawnBoss constructs a boss for W at most
\* once over the whole run.
BossAtMostOncePerWave ==
  \A i, j \in 1..Len(spawner.bossWaves) :
    spawner.bossWaves[i] = spawner.bossWaves[j] => i = j

\* Bosses have been constructed for two different waves and the run has
\* moved on past the second.
BossAtMostOnceWitness ==
  /\ Len(spawner.bossWaves) >= 2
  /\ spawner.waveNumber > spawner.bossWaves[2]

\* C4: when the wave advances to W, a boss is constructed on that advance if
\* and only if W >= bossIntroWave, W % bossInterval = 0 and no boss has been
\* constructed for W before.
BossIffDue ==
  [][spawner'.waveNumber # spawner.waveNumber =>
       ((spawner'.bossWaves # spawner.bossWaves) <=>
          (/\ spawner'.waveNumber >= BossIntroWave
           /\ spawner'.waveNumber % BossInterval = 0
           /\ bossesFor(spawner'.waveNumber) = 0))]_vars

\* C5: after every scheduler tick waveNumber = floor(totalSpawned / batch) + 1,
\* and waveNumber never decreases.
WaveFormula ==
  /\ [](spawner.waveNumber = (spawner.totalEnemiesSpawned \div EnemiesPerWave) + 1)
  /\ [][spawner'.waveNumber >= spawner.waveNumber]_vars

\* The third advance has just happened: 60 spawned, wave 4.
WaveFormulaWitness ==
  /\ spawner.totalEnemiesSpawned = 60
  /\ spawner.waveNumber = 4

\* C6: spawnInterval never increases and never falls below its floor; it
\* changes only on a wave advance, where it becomes
\* max(floor, previous - decrement).
SpawnIntervalMonotone ==
  /\ [](spawner.spawnInterval >= MIN_SPAWN_INTERVAL)
  /\ [][/\ spawner'.spawnInterval <= spawner.spawnInterval
        /\ spawner'.waveNumber = spawner.waveNumber =>
             spawner'.spawnInterval = spawner.spawnInterval
        /\ spawner'.waveNumber # spawner.waveNumber =>
             spawner'.spawnInterval =
               (IF spawner.spawnInterval - SPAWN_INTERVAL_DECREASE_RATE
                     > MIN_SPAWN_INTERVAL
                  THEN spawner.spawnInterval - SPAWN_INTERVAL_DECREASE_RATE
                  ELSE MIN_SPAWN_INTERVAL)]_vars

\* The interval sits on its floor and a further advance (wave 14) has had
\* to be clamped.
SpawnIntervalWitness ==
  /\ spawner.spawnInterval = MIN_SPAWN_INTERVAL
  /\ spawner.waveNumber >= 14

\* The observed store as (type, multiplier, remaining time) entries: an
\* altar buff's remaining time is its endTime less the scene clock.
entries ==
  IF manager = "altar"
    THEN [i \in 1..Len(activeBuffs) |->
            [type |-> activeBuffs[i].type,
             multiplier |-> activeBuffs[i].value,
             remaining |-> activeBuffs[i].endTime - now]]
    ELSE [i \in 1..Len(station.lingeringBuffs) |->
            [type |-> station.lingeringBuffs[i].type,
             multiplier |-> station.lingeringBuffs[i].multiplier,
             remaining |-> station.lingeringBuffs[i].remainingTime]]

present(k) == \E i \in 1..Len(entries) : entries[i].type = k

entry(k) == entries[CHOOSE i \in 1..Len(entries) : entries[i].type = k]

\* The multiplier query of the observed manager.
query(k) ==
  IF manager = "altar" THEN getBuffMultiplier(activeBuffs, k)
  ELSE getLingeringMultiplier(station, k)

BuffKinds == AltarBuffType \cup LingeringBuffType

\* GameScene.update runs the managers in this step.
TickRuns == phase = "clock" /\ ~isPaused /\ phase' = "idle"

\* How much of a grant made in a tick that same tick takes off: the station
\* counts its timers down after the zone check, the altar compares against
\* the clock, which does not move inside the tick.
tickElapsed == IF manager = "altar" THEN 0 ELSE frameDelta

Count(seq, k) == Cardinality({i \in 1..Len(seq) : seq[i] = k})

\* C7: a grant of a kind that is already in the store replaces the entry:
\* after the tick the query returns the new grant's multiplier and the
\* remaining time is the new grant's duration (less what the granting tick
\* itself counts down), whatever the old entry held.
RegrantReplaces ==
  [][\A k \in BuffKinds : \A i \in 1..Len(trace'.granted) :
       (trace'.granted[i].type = k /\ present(k)) =>
         IF trace'.granted[i].duration - tickElapsed > 0
           THEN /\ present(k)'
                /\ query(k)' = trace'.granted[i].multiplier
                /\ entry(k)'.remaining = trace'.granted[i].duration - tickElapsed
           ELSE ~present(k)']_vars

\* Leaving the zone has just replaced a damage buff of 1.20 that was still
\* running by one of 1.30.
RegrantWitness ==
  /\ manager = "station"
  /\ \E r \in trace.regranted :
       /\ r.type = "damage"
       /\ r.multiplier = COMBAT_DAMAGE_BOOST
       /\ r.remaining > 0
  /\ query("damage") = COMBAT_DAMAGE_BOOST + POWER_DAMAGE_BONUS

\* C8: a query returns the stored multiplier only while the entry's
\* remaining time is above 0, and the neutral multiplier otherwise, at every
\* point of the frame.
QueryNeutralOnceElapsed ==
  \A k \in BuffKinds :
    query(k) = IF present(k) /\ entry(k).remaining > 0
                 THEN entry(k).multiplier ELSE NEUTRAL

\* The remaining time of kind k reaches 0 or below in this tick: an entry
\* not granted anew runs out, or one granted in this tick is already used up
\* by the tick's own countdown.
Expiring(k) ==
  \/ /\ \A i \in 1..Len(trace'.granted) : trace'.granted[i].type # k
     /\ present(k)
     /\ entry(k).remaining - tickElapsed <= 0
  \/ \E i \in 1..Len(trace'.granted) :
       /\ trace'.granted[i].type = k
       /\ trace'.granted[i].duration - tickElapsed <= 0

\* C9 as stated: an entry whose remaining time reaches 0 or below in a tick
\* is removed in that tick and exactly one expired notification with its
\* kind is shown.
ExpiryNotifiesOutward ==
  [][TickRuns =>
       \A k \in BuffKinds :
         Expiring(k) => /\ ~present(k)'
                        /\ Count(trace'.notified, k) = 1]_vars

\* C9: an entry whose remaining time reaches 0 or below in a tick is removed
\* in that tick and the manager's expiry hook is called exactly once with
\* its kind; the altar's hook shows exactly one expired notification, the
\* station's hook shows none.
ExpiryRemovesAndCallsHook ==
  [][TickRuns =>
       \A k \in BuffKinds :
         Expiring(k) => /\ ~present(k)'
                        /\ Count(trace'.expired, k) = 1
                        /\ Count(trace'.notified, k) =
                             (IF manager = "altar" THEN 1 ELSE 0)]_vars

\* Two lingering buffs have just run out in the same tick, silently.
ExpiryWitness ==
  /\ manager = "station"
  /\ Len(trace.expired) >= 2
  /\ trace.notified = <<>>

\* C10: the store never holds two entries of the same kind.
OneEntryPerKind ==
  \A i, j \in 1..Len(entries) : entries[i].type = entries[j].type => i = j

\* A zone exit has just re-granted kinds that were still running, with three
\* or more kinds now in the list.
OneEntryPerKindWitness ==
  /\ manager = "station"
  /\ trace.regranted # {}
  /\ Len(station.lingeringBuffs) >= 3

\* The station update runs in this step.
GateTickRuns == manager = "station" /\ phase = "clock" /\ ~isPaused /\ phase' = "idle"

\* C11: after each station update, isInside equals (not upgrading) and
\* distance(player, station) < radius(level).
InsideIffWithinRadius ==
  [][GateTickRuns =>
       (station'.playerInsideRadius <=>
          (~station'.isUpgrading /\ playerDist' < getCurrentRadius(station')))]_vars

\* The player has just been found inside a radius that only level 2 gives.
InsideWitness ==
  /\ phase = "idle"
  /\ now > 0
  /\ station.playerInsideRadius
  /\ playerDist >= BASE_RADIUS
  /\ zoneLog.callbacks = <<"enter">>

\* C12: the entered and left callbacks fire only in a station update that
\* changes isInside, exactly one per change, entered on a change to inside
\* and left on a change to outside, so they alternate; an update that leaves
\* isInside as it was fires neither.
CallbacksOnlyOnChange ==
  [][GateTickRuns =>
       /\ Len(zoneLog'.callbacks) <= 1
       /\ (zoneLog'.callbacks # <<>>) <=>
            (station'.playerInsideRadius # station.playerInsideRadius)
       /\ zoneLog'.callbacks = <<"enter">> =>
            (station'.playerInsideRadius /\ zoneLog.last # "enter")
       /\ zoneLog'.callbacks = <<"leave">> =>
            (~station'.playerInsideRadius /\ zoneLog.last = "enter")]_vars

\* The left callback has just fired for a player who still stands within
\* the radius: an upgrade has switched the protection off.
CallbacksWitness ==
  /\ zoneLog.callbacks = <<"leave">>
  /\ station.isUpgrading
  /\ playerDist < getCurrentRadius(station)

\* C13: while an upgrade is in progress the gate reports the player as
\* outside and the combat-permission query allows attacking.
UpgradingReportsOutside ==
  station.isUpgrading =>
    (~isPlayerInSafeZone(station) /\ canPlayerAttack(station))

\* C20: the entry shield is granted only if it was never granted before or
\* its cooldown has elapsed since the last grant.
ShieldRespectsCooldown ==
  [][(GateTickRuns /\ zoneLog'.shield) =>
       \/ zoneLog.shieldAt = -1
       \/ now' - zoneLog.shieldAt >= SANCTUARY_SHIELD_COOLDOWN]_vars

\* The player has just re-entered the zone of a station of level 2 or more
\* during the cooldown and got no shield.
ShieldWitness ==
  /\ zoneLog.callbacks = <<"enter">>
  /\ ~zoneLog.shield
  /\ zoneLog.shieldAt >= 0
  /\ now < zoneLog.shieldAt + SANCTUARY_SHIELD_COOLDOWN

\* The lingering buff kinds a zone of level L grants on exit.
KindsForLevel(L) ==
  (IF L >= 3 THEN {"regen"} ELSE {})
    \cup (IF L >= 4 THEN {"damage", "xp"} ELSE {})
    \cup (IF L = 5 THEN {"fireRate", "speed"} ELSE {})

\* The full duration of a lingering buff kind under the module tiers.
FullDuration(k, tiers) ==
  (IF k = "regen"
     THEN HP_REGEN_LINGER_DURATION
            + (IF tiers["medical"] >= 3 THEN MEDICAL_LINGER_DURATION_BONUS ELSE 0)
     ELSE IF k \in {"damage", "xp"} THEN COMBAT_BUFFS_DURATION
     ELSE ULTIMATE_BUFFS_DURATION)
  + (IF tiers["power"] >= 1 THEN POWER_BUFF_DURATION_BONUS ELSE 0)

\* C19: right after a station update takes isInside from true to false at
\* level L, the grants installed are exactly regen (L >= 3), damage and xp
\* (L >= 4), fire rate and speed (L = 5), one entry each with its full
\* duration, and what the list holds at the end of that update is those
\* entries less the update's own countdown: nothing of an earlier visit.
LeaveInstallsFreshSet ==
  [][(TickRuns /\ manager = "station"
        /\ station.playerInsideRadius /\ ~station'.playerInsideRadius) =>
       /\ {trace'.granted[i].type : i \in 1..Len(trace'.granted)}
            = KindsForLevel(station'.stationLevel)
       /\ Len(trace'.granted) = Cardinality(KindsForLevel(station'.stationLevel))
       /\ \A i \in 1..Len(trace'.granted) :
            /\ trace'.granted[i].duration
                 = FullDuration(trace'.granted[i].type, station'.moduleTiers)
            /\ trace'.granted[i].duration - frameDelta > 0 =>
                 \E j \in 1..Len(station'.lingeringBuffs) :
                   station'.lingeringBuffs[j].type = trace'.granted[i].type
       /\ \A j \in 1..Len(station'.lingeringBuffs) :
            \E i \in 1..Len(trace'.granted) :
              /\ trace'.granted[i].type = station'.lingeringBuffs[j].type
              /\ station'.lingeringBuffs[j].multiplier = trace'.granted[i].multiplier
              /\ station'.lingeringBuffs[j].maxDuration = trace'.granted[i].duration
              /\ station'.lingeringBuffs[j].remainingTime
                   = trace'.granted[i].duration - frameDelta]_vars

\* The player has just left a level-5 zone: five grants, some of them
\* replacing entries of the visit before.
LeaveWitness ==
  /\ manager = "station"
  /\ station.stationLevel = MAX_LEVEL
  /\ Len(trace.granted) = 5
  /\ trace.regranted # {}

\* C14: at the end of every station update, also during an upgrade, every
\* active enemy is at least radius(level) away from the station, and one
\* that had moved inside the radius stands beyond the buffer ring.
NoHostileInsideRadius ==
  [][GateTickRuns =>
       \A i \in 1..Len(hostiles') :
         hostiles'[i].active => hostiles'[i].dist >= getCurrentRadius(station')]_vars

\* During an upgrade an enemy has just been set down beyond the buffer ring
\* of a station of level 2 or more.
EjectWitness ==
  /\ phase = "idle"
  /\ station.isUpgrading
  /\ station.stationLevel >= 2
  /\ \E i \in 1..Len(hostiles) :
       /\ hostiles[i].active
       /\ hostiles[i].dist = getCurrentRadius(station) + BUFFER_WIDTH + TELEPORT_MARGIN

\* C15: no attack (auto-fire projectile, axe, dagger) is launched in a frame
\* whose attack managers found playerInsideRadius true.
NoAttackWhileInside ==
  [][GateTickRuns /\ launched'.kinds # {} => ~station.playerInsideRadius]_vars

\* A frame in which every attack was due, an enemy was in range, and the
\* safe zone held all of them back.
NoAttackWitness ==
  /\ phase = "idle"
  /\ ~launched.allowed
  /\ launched.near
  /\ launched.kinds = {}
  /\ weapons.hasAxe
  /\ weapons.hasDagger
  /\ weapons.autoFireTimer >= AUTO_FIRE_INTERVAL

\* C16: a target's death event is emitted exactly when a hit takes its hp
\* from above 0 to 0, and never more than once.
DeathEventOnce ==
  [][\A t \in Targets :
       /\ enemies'[t].deaths =
            enemies[t].deaths
              + (IF enemies[t].currentHp > 0 /\ enemies'[t].currentHp = 0 THEN 1 ELSE 0)
       /\ enemies'[t].deaths <= 1]_vars

\* A target that died in this tick and was hit again in the same tick.
DeathEventWitness ==
  /\ combatLog.hits >= 2
  /\ combatLog.target \in Targets
  /\ ~combatLog.applied
  /\ enemies[combatLog.target].deaths = 1
  /\ enemies[combatLog.target].currentHp = 0

\* C17: the axe damages a target at most once in a pass, and its hit-set
\* loses members only when the pass turns or the axe is fired again.
AxeOncePerPass ==
  [][/\ \A t \in Targets : combatLog'.axeHits[t] <= 1
     /\ ~(axe.hitEnemies \subseteq axe'.hitEnemies) =>
          \/ ~axe.returning /\ axe'.returning
          \/ axe'.active /\ axe'.lifespan = 0]_vars

\* On its way back the axe overlaps a live target it has already damaged in
\* this pass, and is refused.
AxeOncePerPassWitness ==
  /\ axe.active
  /\ axe.returning
  /\ combatLog.by = "axe"
  /\ ~combatLog.applied
  /\ combatLog.target \in axe.hitEnemies
  /\ combatLog.axeHits[combatLog.target] = 1
  /\ alive(enemies[combatLog.target])

\* C18: when the orb damages a target it has damaged before, at least
\* 500 ms of tick time have accumulated in between.
OrbCooldownRespected ==
  combatLog.by = "orb" /\ combatLog.applied =>
    combatLog.since = -1 \/ combatLog.since >= ORB_DAMAGE_COOLDOWN

\* The orb damages a target a second time, the cooldown having run out.
OrbCooldownWitness ==
  /\ combatLog.by = "orb"
  /\ combatLog.applied
  /\ combatLog.since >= ORB_DAMAGE_COOLDOWN

\* What is left of the station upgrade in progress.
upgradeRemaining ==
  IF station.isUpgrading
    THEN Max(0, station.upgradeStartTime + getUpgradeTime(station) - now)
    ELSE 0

\* What is left of the entry shield's cooldown.
shieldCooldownRemaining == Max(0, sanctuaryShieldCooldownEnd - now)

\* C21: a step of the scene clock taken while the game is paused leaves the
\* spawn countdown, every buff's remaining time, the entry shield's cooldown
\* and the upgrade countdown as they were.
PauseFreezesTimers ==
  [][isPaused /\ now' > now =>
       /\ entries' = entries
       /\ upgradeRemaining' = upgradeRemaining
       /\ shieldCooldownRemaining' = shieldCooldownRemaining
       /\ spawner'.timeSinceLastSpawn = spawner.timeSinceLastSpawn]_vars

\* The components the frame order is stated for, in the stated order.
SpecifiedOrder ==
  <<"Scheduler", "Pools", "EffectEngine", "SafeZoneGate", "CombatResolver", "UI">>

rank(c) == CHOOSE i \in 1..Len(SpecifiedOrder) : SpecifiedOrder[i] = c

IsNamedComponent(c) == \E i \in 1..Len(SpecifiedOrder) : SpecifiedOrder[i] = c

IsUpdateCall(c) == c # "CombatResolver"

\* C22 as stated: within a frame the named components advance in the order
\* Scheduler, Pools, EffectEngine, SafeZoneGate, CombatResolver, UI.
OrderAsSpecified ==
  LET named == SelectSeq(updateOrder, IsNamedComponent)
  IN  \A i \in 1..Len(named), j \in 1..Len(named) :
        i < j => rank(named[i]) <= rank(named[j])

\* C22 as the code has it: every frame that updates advances Scheduler, four
\* pools, EffectEngine, the gold pool, SafeZoneGate and the UI, in this
\* order, and hit resolution happens before the first or after the last of
\* them.
OrderAsCoded ==
  LET calls == SelectSeq(updateOrder, IsUpdateCall)
      first == CHOOSE i \in 1..Len(updateOrder) : IsUpdateCall(updateOrder[i])
  IN  calls # <<>> =>
        /\ SelectSeq(calls, IsNamedComponent) =
             <<"Scheduler", "Pools", "Pools", "Pools", "Pools", "EffectEngine",
               "Pools", "SafeZoneGate", "UI", "UI">>
        /\ \A i \in 1..Len(updateOrder) :
             ~IsUpdateCall(updateOrder[i]) => i < first \/ i >= first + Len(calls)

\* A frame in which a hit was resolved before update() ran and another
\* after it.
OrderWitness ==
  /\ Len(updateOrder) >= 3
  /\ updateOrder[1] = "CombatResolver"
  /\ updateOrder[Len(updateOrder)] = "CombatResolver"
  /\ \E i \in 1..Len(updateOrder) : updateOrder[i] = "SafeZoneGate"

\* EnemySpawner.update runs in this step.
FleetTickRuns == spawnLog'.tick # spawnLog.tick

\* C23: the tick after a spawn attempt rejected for its position makes a
\* spawn attempt again.
RejectedSpawnRetriesNextTick ==
  [][FleetTickRuns /\ spawnLog.attempt = "rejected" => spawnLog'.attempt # "none"]_vars

\* C24: after a scheduler tick no enemy of the group, boss or not, is farther
\* than the despawn distance from the player.
NoEnemyBeyondDespawn ==
  \A i \in 1..Len(fleet) : fleet[i].dist <= ENEMY_DESPAWN_DISTANCE

\* C25: an enemy or boss constructed in a tick starts wandering exactly when
\* a protection predicate was registered and returned true.
WanderIffProtected ==
  \A i \in 1..Len(spawnLog.born) :
    spawnLog.born[i].wander <=> (spawnLog.registered /\ spawnLog.protected)

\* A boss constructed with no predicate registered, in pursuit mode, in a
\* tick where the player was in the safe zone.
WanderWitness ==
  /\ \E i \in 1..Len(spawnLog.born) :
       spawnLog.born[i].boss /\ ~spawnLog.born[i].wander
  /\ ~spawnLog.registered
  /\ spawnLog.protected

\* C29: a fire/spawn request on a group with an inactive member obtains an
\* inactive member and leaves it active.
AcquireActivatesFreeSlot ==
  [][(poolOp' = "fire" /\ ~allActive) =>
       /\ acquired' > 0
       /\ ~children[acquired'].active
       /\ children'[acquired'].active]_vars

\* A purchase is attempted in this step; economy'.last tells which and at
\* what cost.
PurchaseAttempted == economy'.tick # economy.tick

\* The resources the attempted purchase asks for are all at hand.
CanAfford ==
  LET a == economy'.last IN
    CASE a.op = "station"   -> /\ economy.sessionGold >= a.goldCost
                               /\ economy.collectedMaterials >= a.materialCost
      [] a.op = "module"    -> /\ economy.collectedMaterials >= a.materialCost
                               /\ MATERIAL_TYPE(a.module) # "any" =>
                                    economy.materialsByType[MATERIAL_TYPE(a.module)]
                                      >= a.materialCost
      [] OTHER              -> economy.gold >= a.goldCost

\* C26: a purchase attempted without the resources for it fails and leaves
\* gold, materials, level, tiers and the upgrading flag as they were; one
\* that succeeds takes exactly its cost in gold and in materials.
PurchaseChecksResources ==
  [][PurchaseAttempted =>
       /\ ~CanAfford =>
            /\ ~economy'.last.ok
            /\ economy' = [economy EXCEPT !.tick = economy'.tick,
                                          !.last = economy'.last]
       /\ economy'.last.ok =>
            /\ economy.sessionGold + economy.gold
                 - (economy'.sessionGold + economy'.gold) = economy'.last.goldCost
            /\ economy.collectedMaterials - economy'.collectedMaterials
                 = economy'.last.materialCost]_vars

\* C27: in every wave, however large, the chance the elite roll is made
\* with lies between 0 and the maximum elite chance.
EliteChanceBounded ==
  waves.op = "select" =>
    /\ NumberCompare(NumberOf(0), waves.eliteChance) <= 0
    /\ NumberCompare(waves.eliteChance, MAX_ELITE_CHANCE) <= 0

\* An elite roll has been made in a wave where the unclamped chance would
\* exceed the maximum, and an elite picked on a draw just below the maximum.
EliteChanceWitness ==
  /\ waves.op = "select"
  /\ waves.rolled
  /\ waves.waveNumber \in LargeWaves
  /\ waves.elite
  /\ waves.roll = 49

\* C28: a boss constructed at wave W has hp equal to its base hp times
\* 1 + (W - bossIntroWave) * 0.15.
BossHpFormula ==
  waves.op = "boss" =>
    waves.hp * 100 = BOSS_HP(waves.bossKey) * (100 + (waves.waveNumber - BossIntroWave) * 15)

\* C30: no hostile takes damage from a player weapon while
\* playerInsideRadius is true.
NoDamageWhileInside ==
  [][enemies' # enemies => ~station.playerInsideRadius]_vars

\* C34: session gold, the total material count and every per-type material
\* count are never negative.
ResourcesNonNegative ==
  /\ economy.sessionGold >= 0
  /\ economy.collectedMaterials >= 0
  /\ \A t \in MaterialType : economy.materialsByType[t] >= 0

\* C35: the total material count equals the sum of the per-type counts.
TotalIsSumByType ==
  economy.collectedMaterials =
    economy.materialsByType["chest"] + economy.materialsByType["junk"]
      + economy.materialsByType["slob"]

\* C32: the enemies group, bosses and dying enemies included, never holds
\* more than MAX_ENEMIES_ON_SCREEN members.
EnemiesWithinMax == spawner.enemies <= MAX_ENEMIES_ON_SCREEN

\* C38: an EnemySpawner.update that culls enemies by despawn distance emits
\* no enemy-killed and no boss-killed event.
CullEmitsNoKill == killLog.culled > 0 => killLog.events = <<>>

\* A tick has culled a boss and another enemy and emitted nothing.
CullWitness ==
  /\ killLog.culled >= 2
  /\ killLog.bossesCulled = 1
  /\ killLog.events = <<>>

\* C37: once the player has died (isAlive false) its hit points are 0 and
\* stay 0 under every later heal and hit.
DeadStaysAtZero == ~vitals.player.isAlive => vitals.player.currentHp = 0

\* C36: a spawned pickup awards its value at most once per spawn, however
\* many physics steps find it overlapping the player.
AwardedOncePerSpawn == pickup.awards <= 1

\* C33: every station upgrade that is started completes exactly once, in the
\* first tick at which its countdown has elapsed: started and completed
\* callbacks alternate, the level is 1 plus the completions and at most
\* MAX_LEVEL, no upgrade starts while one is in progress, and every start is
\* followed by its completion.
UpgradeCounts ==
  /\ station.upgradeEvents.started - station.upgradeEvents.completed =
       (IF station.isUpgrading THEN 1 ELSE 0)
  /\ station.stationLevel = 1 + station.upgradeEvents.completed
  /\ station.stationLevel <= MAX_LEVEL

UpgradeSteps ==
  /\ (phase = "clock" /\ phase' = "idle") =>
       ~(station'.isUpgrading
           /\ now - station'.upgradeStartTime >= getUpgradeTime(station'))
  /\ station'.upgradeEvents.started # station.upgradeEvents.started =>
       (~station.isUpgrading /\ station'.isUpgrading
          /\ station'.stationLevel = station.stationLevel)
  /\ station'.upgradeEvents.completed # station.upgradeEvents.completed =>
       (station.isUpgrading /\ ~station'.isUpgrading
          /\ station'.stationLevel = station.stationLevel + 1
          /\ now - station.upgradeStartTime >= getUpgradeTime(station))

PlayerAttackGroups == {"projectiles", "axes", "daggers"}

AttackReleased ==
  /\ [](group \in PlayerAttackGroups =>
          \A i \in 1..Len(children) :
            children[i].active => children[i].lifespan < maxLifespan(group))
  /\ \A i \in 1..MaxPool :
       (group \in PlayerAttackGroups /\ i <= Len(children) /\ children[i].active)
         ~> (i > Len(children) \/ ~children[i].active)

\* An update has released a member whose lifespan ran out.
AttackReleasedWitness ==
  /\ group \in PlayerAttackGroups
  /\ poolOp = "update"
  /\ \E i \in 1..Len(children) :
       ~children[i].active /\ children[i].lifespan >= maxLifespan(group)

\* C31: at the end of every tick, every alive member of the enemies group is
\* wandering exactly when the station holds the player inside its radius.
WanderMatchesInside ==
  [][(phase = "clock" /\ ~isPaused /\ phase' = "idle") =>
       \A i \in 1..Len(horde') :
         horde'[i].alive => (horde'[i].wander <=> station'.playerInsideRadius)]_vars
====
